---- MODULE Spec2Model ----
(***************************************************************************)
(* Model of the customer analytics page (src/unnamed/part_000) and of the  *)
(* customer report page (src/app/routes/app.report.tsx).                   *)
(*                                                                         *)
(* Conventions.  An optional value (null | v) is a sequence of length at   *)
(* most one: <<>> is null / undefined, <<v>> is v.  Money amounts are      *)
(* whole numbers.  Instants are seconds; a day has SecondsPerDay of them.  *)
(* Each component has its own specification (SpecTop, SpecWalk, ...); the  *)
(* variables of the other components stay at their initial values.         *)
(***************************************************************************)
EXTENDS Integers, Sequences, FiniteSets, TLC

VARIABLES
  \* insertTopCustomer applied call after call (SpecTop)
  topList,        \* the list the calls have built so far
  topCalls,       \* the number of calls made
  topSeen,        \* history: how many candidates of each amount were offered
  \* fetchAllCustomers of the analytics page (SpecWalk)
  pc,             \* "loop": at the while test; "page": in the for loop;
                  \* "returned"; "thrown"
  hasNextPage, after, customersCount, totalClv, topCustomers, currencyCode,
  truncated,
  page,           \* the response whose nodes the for loop is going through
  upstream,       \* history: what the upstream has served so far
  \* getDateRange (SpecDate)
  dateReq,        \* the url's start and end parameters, and the clock
  dateRes,        \* <<>> before the call, <<the returned range>> after it
  \* buildBuckets (SpecBuckets)
  bucketReq,      \* the values and the edges of the call
  bucketRes,      \* <<>> before the call, <<its outcome>> after it
  \* sortCustomers (SpecSort)
  sortReq,        \* the caller's array and the sort key
  sortRes,        \* <<>> before the call, <<what it returned>> after it
  \* the report page's loader (SpecReport)
  reportReq,      \* the upstream's customers and the url's parameters
  reportRes,      \* <<>> before the request, <<what the loader built>> after
  \* escapeCsv (SpecCsv)
  csvReq,         \* the value of the call
  csvRes,         \* <<>> before the call, <<the field it returned>> after it
  \* the report page's action and its preset store (SpecPresets)
  reportPreset,   \* the rows of the reportPreset table
  presetClock,    \* the store's clock and the ids it has given out
  actionRes,      \* <<>> or <<the last request of the action, its outcome>>
  presetsData,    \* <<>> or <<the loader's last listing of presets>>
  presetLog,      \* history: the presets created, the presets deleted, and
                  \* by id the form each preset still stored was saved from
  \* fetchOrdersInRange and the analytics loader around it (SpecLoader)
  scanPc,         \* "idle": not called; "loop"; "page"; "returned"; "thrown"
  ordersHasNextPage, ordersAfter, scanOrdersCount, ordersTruncated,
  usedFallback,
  newCustomersMap,
  ordersPage,     \* the response whose orders the for loop is going through
  ordersSeen,     \* history: the orders the for loop has gone through
  scanRes,        \* <<>> or <<what fetchOrdersInRange returned>>
  ordersUpstream, \* history: the cursor of the request for orders whose
                  \* response is being gone through, and the page info of
                  \* the last response
  loaderReq,      \* the url's customer_email parameter
  lookupPc,       \* "idle", "skipped", "returned" or "thrown"
  loaderRes,      \* <<>> or <<the data the loader returned>>
  \* formatReferrerChannel (SpecChannel)
  channelReq,     \* <<>> or <<the visit of the call>>
  channelRes      \* <<>> before the call, <<the channel it returned>> after

topVars == <<topList, topCalls, topSeen>>
walkVars == <<pc, hasNextPage, after, customersCount, totalClv, topCustomers,
              currencyCode, truncated, page, upstream>>
dateVars == <<dateReq, dateRes>>
bucketVars == <<bucketReq, bucketRes>>
sortVars == <<sortReq, sortRes>>
reportVars == <<reportReq, reportRes>>
csvVars == <<csvReq, csvRes>>
presetVars == <<reportPreset, presetClock, actionRes, presetsData, presetLog>>
scanVars == <<scanPc, ordersHasNextPage, ordersAfter, scanOrdersCount,
              ordersTruncated, usedFallback, newCustomersMap, ordersPage,
              ordersSeen, scanRes, ordersUpstream>>
loaderVars == <<loaderReq, lookupPc, loaderRes>>
channelVars == <<channelReq, channelRes>>
vars == <<topVars, walkVars, dateVars, bucketVars, sortVars, reportVars,
          csvVars, presetVars, scanVars, loaderVars, channelVars>>

----------------------------------------------------------------------------
(* Bounds of the model *)

\* amounts spent are drawn from 0..MaxAmount
MaxAmount == 2
\* SpecTop makes at most TOP_LIMIT + MaxExtraCalls calls
MaxExtraCalls == 2
\* the days a date parameter may name are 0..MaxDay
MaxDay == 4
\* buildBuckets gets at most MaxBucketValues values and MaxEdges edges, the
\* edges from 0..MaxEdge, the values from -1..MaxEdge + 1
MaxBucketValues == 2
MaxEdges == 3
MaxEdge == 2
\* sortCustomers gets at most MaxSortLen customers
MaxSortLen == 3
\* the longest text escapeCsv is tried on
MaxCsvLen == 3
\* the page parameter names pages up to MaxPage, in halves from -1
MaxPage == 4
\* the upstream's first MaxErrorAt responses may carry errors
MaxErrorAt == 2
\* the store gives out at most MaxPresets ids
MaxPresets == 2
\* the order scans of the model go through at most MaxScanOrders orders
MaxScanOrders == 3

(* Program constants *)
DEFAULT_RANGE_DAYS == 30
SecondsPerDay == 86400
PAGE_SIZE == 250
MAX_CUSTOMERS == 2000
TOP_LIMIT == 10
MAX_ORDERS == 2000
PAGE_SIZE_OPTIONS == {50, 100, 250, 500}
DEFAULT_PAGE_SIZE == 250

----------------------------------------------------------------------------
(* Generic helpers *)

Min(a, b) == IF a < b THEN a ELSE b
Max(a, b) == IF a > b THEN a ELSE b

\* s.slice(0, n)
Slice(s, n) == SubSeq(s, 1, Min(n, Len(s)))

----------------------------------------------------------------------------
(* The comparators and Array.prototype.sort *)

\* x || y of two numbers
OrElse(x, y) == IF x # 0 THEN x ELSE y

SortKeys == {"ltv_desc", "ltv_asc", "orders_desc", "orders_asc"}

\* (a, b) => b.totalSpent - a.totalSpent, of insertTopCustomer
bySpentDesc(a, b) == b.totalSpent - a.totalSpent

\* a plausible slip: ltv_desc breaks ties by ordersCount ascending
compareCustomersTieAscending(sort, a, b) ==
  CASE sort = "ltv_asc" ->
         OrElse(a.totalSpent - b.totalSpent, a.ordersCount - b.ordersCount)
    [] sort = "ltv_desc" ->
         OrElse(b.totalSpent - a.totalSpent, a.ordersCount - b.ordersCount)
    [] sort = "orders_asc" ->
         OrElse(a.ordersCount - b.ordersCount, a.totalSpent - b.totalSpent)
    [] sort = "orders_desc" ->
         OrElse(b.ordersCount - a.ordersCount, b.totalSpent - a.totalSpent)

\* the comparators of sortCustomers' switch (report page, lines 293-306)
compareCustomers(sort, a, b) ==
  CASE sort = "ltv_asc" ->
         OrElse(a.totalSpent - b.totalSpent, a.ordersCount - b.ordersCount)
    [] sort = "ltv_desc" ->
         OrElse(b.totalSpent - a.totalSpent, b.ordersCount - a.ordersCount)
    [] sort = "orders_asc" ->
         OrElse(a.ordersCount - b.ordersCount, a.totalSpent - b.totalSpent)
    [] sort = "orders_desc" ->
         OrElse(b.ordersCount - a.ordersCount, b.totalSpent - a.totalSpent)

\* a plausible slip: the new customers are sorted newest first
byFirstOrderDateDescending(a, b) == b.firstOrderDate - a.firstOrderDate

\* fetchOrdersInRange's comparator (lines 471-473): localeCompare of two ISO
\* texts of one format orders them as the instants they write
byFirstOrderDate(a, b) == a.firstOrderDate - b.firstOrderDate

\* the comparator a sort call passes: "top" is insertTopCustomer's, a sort
\* key is sortCustomers' for that key
Compare(by, a, b) ==
  IF by = "top" THEN bySpentDesc(a, b)
  ELSE IF by = "firstOrderDate" THEN byFirstOrderDate(a, b)
  ELSE compareCustomers(by, a, b)

\* Array.prototype.sort with a comparator: a stable sort.  An element's place
\* is one more than the number of elements that come before it: those that
\* compare smaller, and those that compare equal and stood to its left.
StableSort(s, by) ==
  LET n == Len(s)
      item == SubSeq(s, 1, n)
      before(j, i) ==
        \/ Compare(by, item[j], item[i]) < 0
        \/ Compare(by, item[j], item[i]) = 0 /\ j < i
      place ==
        SubSeq([i \in 1..n |-> 1 + Cardinality({j \in 1..n : before(j, i)})],
               1, n)
  IN  SubSeq([r \in 1..n |-> item[CHOOSE i \in 1..n : place[i] = r]], 1, n)

----------------------------------------------------------------------------
(* Analytics page: the top-customers list *)

\* a plausible slip: the list is sorted by totalSpent ascending
insertTopCustomerAscending(list, customer) ==
  Slice(StableSort(Append(list, customer), "ltv_asc"), TOP_LIMIT)

\* a plausible slip: a list that is full takes no further customer
insertTopCustomerWhileRoom(list, customer) ==
  IF Len(list) >= TOP_LIMIT THEN list
  ELSE Slice(StableSort(Append(list, customer), "top"), TOP_LIMIT)

\* insertTopCustomer (lines 195-201)
insertTopCustomer(list, customer) ==
  Slice(StableSort(Append(list, customer), "top"), TOP_LIMIT)

Amounts == 0..MaxAmount

\* the candidates offered to the calls: one customer per amount
Candidate(amount) ==
  [id |-> 100 + amount, totalSpent |-> amount, ordersCount |-> 1]

InitTop ==
  /\ topList = <<>>
  /\ topCalls = 0
  /\ topSeen = [amount \in Amounts |-> 0]

InsertCall ==
  /\ topCalls < TOP_LIMIT + MaxExtraCalls
  /\ \E amount \in Amounts :
       /\ topList' = insertTopCustomer(topList, Candidate(amount))
       /\ topSeen' = [topSeen EXCEPT ![amount] = @ + 1]
  /\ topCalls' = topCalls + 1
  /\ UNCHANGED <<walkVars, dateVars, bucketVars, sortVars, reportVars>>
  /\ UNCHANGED <<csvVars, presetVars, scanVars, loaderVars,
                 channelVars>>

NextTop == InsertCall

----------------------------------------------------------------------------
(* Analytics page: fetchAllCustomers *)

\* The upstream's customers, in upstream order: customer k of the shop.
\* Every seventh has no amountSpent, every eleventh no numberOfOrders.
CustomerNode(k) ==
  [id |-> k,
   amountSpent |-> IF k % 7 = 0 THEN <<>>
                   ELSE <<[amount |-> k % (MaxAmount + 1),
                           currencyCode |-> IF k % 5 = 0 THEN "" ELSE "USD"]>>,
   numberOfOrders |-> IF k % 11 = 0 THEN <<>> ELSE <<1 + (k % 3)>>]

\* what a page may hold: nothing, a full page, one less than a full page
PageLens == {0, PAGE_SIZE - 1, PAGE_SIZE}

\* Number(customer.amountSpent?.amount || 0)
AmountOf(customer) ==
  IF customer.amountSpent = <<>> THEN 0 ELSE customer.amountSpent[1].amount

\* customer.numberOfOrders || 0
OrdersOf(customer) ==
  IF customer.numberOfOrders = <<>> THEN 0 ELSE customer.numberOfOrders[1]

\* the sum of the amounts of customers from..to of the upstream
RECURSIVE SumAmounts(_, _)
SumAmounts(from, to) ==
  IF from > to THEN 0
  ELSE IF from = to THEN AmountOf(CustomerNode(from))
  ELSE LET mid == (from + to) \div 2
       IN  SumAmounts(from, mid) + SumAmounts(mid + 1, to)

\* pageInfo.endCursor of a response: the position of the last customer
\* served so far, null while none was
EndCursor(served) == IF served = 0 THEN <<>> ELSE <<served>>

NoPage ==
  [nodes |-> 0, first |-> 0, hasNextPage |-> FALSE, endCursor |-> <<>>,
   done |-> 0]

\* a plausible slip: the cursor of the next request is not taken from the
\* response
nextCursorNull(pageInfo) == <<>>

\* after = json.data.customers.pageInfo.endCursor (line 270), and the same
\* assignment of the other two walks
nextCursor(pageInfo) == pageInfo.endCursor

InitWalk ==
  /\ pc = "loop"
  /\ hasNextPage = TRUE
  /\ after = <<>>
  /\ customersCount = 0
  /\ totalClv = 0
  /\ topCustomers = <<>>
  /\ currencyCode = "USD"
  /\ truncated = FALSE
  /\ page = NoPage
  /\ upstream = [served |-> 0, clvOfFirstMax |-> 0, minLen |-> PAGE_SIZE,
                 requested |-> <<>>, responded |-> <<>>, lens |-> PageLens,
                 available |-> MAX_CUSTOMERS + PAGE_SIZE]

\* the walk of a shop of one customer, whose pages hold one customer or none
InitWalkSmallShop ==
  /\ pc = "loop"
  /\ hasNextPage = TRUE
  /\ after = <<>>
  /\ customersCount = 0
  /\ totalClv = 0
  /\ topCustomers = <<>>
  /\ currencyCode = "USD"
  /\ truncated = FALSE
  /\ page = NoPage
  /\ upstream = [served |-> 0, clvOfFirstMax |-> 0, minLen |-> PAGE_SIZE,
                 requested |-> <<>>, responded |-> <<>>, lens |-> {0, 1},
                 available |-> 1]

\* fetchAllCustomers not called
InitWalkIdle ==
  /\ pc = "idle"
  /\ hasNextPage = TRUE
  /\ after = <<>>
  /\ customersCount = 0
  /\ totalClv = 0
  /\ topCustomers = <<>>
  /\ currencyCode = "USD"
  /\ truncated = FALSE
  /\ page = NoPage
  /\ upstream = [served |-> 0, clvOfFirstMax |-> 0, minLen |-> PAGE_SIZE,
                 requested |-> <<>>, responded |-> <<>>, lens |-> {},
                 available |-> 0]

\* the while test (line 212)
WalkContinues == hasNextPage /\ customersCount < MAX_CUSTOMERS

\* the request of an iteration and its response without errors
\* (lines 213-246): the response holds the next n customers of the upstream,
\* n one of the page lengths this upstream serves
FetchPage ==
  /\ pc = "loop"
  /\ WalkContinues
  /\ \E n \in upstream.lens, more \in BOOLEAN :
       LET keep == Min(n, Max(0, MAX_CUSTOMERS - upstream.served))
       IN  /\ upstream.served + n <= upstream.available
           /\ page' = [nodes |-> n, first |-> upstream.served + 1,
                       hasNextPage |-> more,
                       endCursor |-> EndCursor(upstream.served + n),
                       done |-> 0]
           /\ upstream' =
                [served |-> upstream.served + n,
                 clvOfFirstMax |-> upstream.clvOfFirstMax
                    + SumAmounts(upstream.served + 1, upstream.served + keep),
                 minLen |-> Min(upstream.minLen, n),
                 requested |-> after,
                 responded |-> <<[endCursor |-> EndCursor(upstream.served + n),
                                  hasNextPage |-> more]>>,
                 lens |-> upstream.lens,
                 available |-> upstream.available]
  /\ pc' = "page"
  /\ UNCHANGED <<hasNextPage, after, customersCount, totalClv, topCustomers,
                 currencyCode, truncated>>
  /\ UNCHANGED <<topVars, dateVars, bucketVars, sortVars, reportVars>>
  /\ UNCHANGED <<csvVars, presetVars, scanVars, loaderVars,
                 channelVars>>

\* one pass of the for loop's body (lines 247-267)
ProcessCustomer ==
  /\ pc = "page"
  /\ page.done < page.nodes
  /\ LET customer == CustomerNode(page.first + page.done)
         amount == AmountOf(customer)
         ordersCount == OrdersOf(customer)
     IN  /\ currencyCode' =
              IF customer.amountSpent # <<>>
                 /\ customer.amountSpent[1].currencyCode # ""
              THEN customer.amountSpent[1].currencyCode
              ELSE currencyCode
         /\ customersCount' = customersCount + 1
         /\ totalClv' = totalClv + amount
         /\ topCustomers' =
              insertTopCustomer(topCustomers,
                                [id |-> customer.id, totalSpent |-> amount,
                                 ordersCount |-> ordersCount])
  /\ page' = [page EXCEPT !.done = @ + 1]
  /\ UNCHANGED <<pc, hasNextPage, after, truncated, upstream>>
  /\ UNCHANGED <<topVars, dateVars, bucketVars, sortVars, reportVars>>
  /\ UNCHANGED <<csvVars, presetVars, scanVars, loaderVars,
                 channelVars>>

\* a plausible slip: the flag is set whenever the cap is reached
TruncatedAfterAtCap(count, more, was) ==
  IF count >= MAX_CUSTOMERS THEN TRUE ELSE was

\* the truncation test of an iteration (line 272)
TruncatedAfter(count, more, was) ==
  IF count >= MAX_CUSTOMERS /\ more THEN TRUE ELSE was

\* the end of an iteration (lines 269-274)
EndPage ==
  /\ pc = "page"
  /\ page.done = page.nodes
  /\ hasNextPage' = page.hasNextPage
  /\ after' = nextCursor(page)
  /\ truncated' = TruncatedAfter(customersCount, page.hasNextPage, truncated)
  /\ pc' = "loop"
  /\ page' = NoPage
  /\ UNCHANGED <<customersCount, totalClv, topCustomers, currencyCode,
                 upstream>>
  /\ UNCHANGED <<topVars, dateVars, bucketVars, sortVars, reportVars>>
  /\ UNCHANGED <<csvVars, presetVars, scanVars, loaderVars,
                 channelVars>>

\* an iteration whose response carries errors: throw (lines 242-244)
FetchError ==
  /\ pc = "loop"
  /\ WalkContinues
  /\ pc' = "thrown"
  /\ upstream' = [upstream EXCEPT !.requested = after]
  /\ UNCHANGED <<hasNextPage, after, customersCount, totalClv, topCustomers,
                 currencyCode, truncated, page>>
  /\ UNCHANGED <<topVars, dateVars, bucketVars, sortVars, reportVars>>
  /\ UNCHANGED <<csvVars, presetVars, scanVars, loaderVars,
                 channelVars>>

\* the while test fails: return (lines 277-284)
WalkReturn ==
  /\ pc = "loop"
  /\ ~WalkContinues
  /\ pc' = "returned"
  /\ UNCHANGED <<hasNextPage, after, customersCount, totalClv, topCustomers,
                 currencyCode, truncated, page, upstream>>
  /\ UNCHANGED <<topVars, dateVars, bucketVars, sortVars, reportVars>>
  /\ UNCHANGED <<csvVars, presetVars, scanVars, loaderVars,
                 channelVars>>

NextWalk ==
  FetchPage \/ ProcessCustomer \/ EndPage \/ FetchError \/ WalkReturn

----------------------------------------------------------------------------
(* Analytics page: getDateRange *)

\* A calendar day is its number, counted from a day 0; an instant is a
\* number of seconds, day d starting at d * SecondsPerDay.  A date parameter
\* is missing, text that is no date, or the text of a day.
Missing == [kind |-> "missing", day |-> 0]
Invalid == [kind |-> "invalid", day |-> 0]
DateText(d) == [kind |-> "date", day |-> d]

\* (getUTCFullYear, getUTCMonth, getUTCDate) of an instant: its day
UTCDay(t) == t \div SecondsPerDay

\* Date.UTC(year, month, date, h, m, s)
DateUTC(day, h, m, s) == day * SecondsPerDay + h * 3600 + m * 60 + s

\* new Date(`${value}T00:00:00Z`), or the fallback (lines 80-84)
parseDateParam(value, fallback) ==
  IF value.kind = "missing" THEN fallback
  ELSE IF value.kind = "invalid" THEN fallback
  ELSE DateUTC(value.day, 0, 0, 0)

\* endDefault (lines 87-90): today at 00:00:00 UTC
EndDefault(today) == DateUTC(UTCDay(today), 0, 0, 0)

\* startDefault (lines 91-92): setUTCDate moves the day, the time stays
StartDefault(today) ==
  LET endDefault == EndDefault(today)
  IN  DateUTC(UTCDay(endDefault) - (DEFAULT_RANGE_DAYS - 1), 0, 0, 0)
        + (endDefault % SecondsPerDay)

\* lines 97-106
NormalizedStart(url, today) ==
  DateUTC(UTCDay(parseDateParam(url.start, StartDefault(today))), 0, 0, 0)

\* lines 107-116
NormalizedEnd(url, today) ==
  DateUTC(UTCDay(parseDateParam(url.end, EndDefault(today))), 23, 59, 59)

\* a plausible slip: the end is not moved to the end of its day
getDateRangeEndAtMidnight(url, today) ==
  IF NormalizedStart(url, today) > NormalizedEnd(url, today)
  THEN [start |-> StartDefault(today), end |-> EndDefault(today)]
  ELSE [start |-> NormalizedStart(url, today),
        end |-> DateUTC(UTCDay(NormalizedEnd(url, today)), 0, 0, 0)]

getDateRange(url, today) ==
  IF NormalizedStart(url, today) > NormalizedEnd(url, today)
  THEN [start |-> StartDefault(today), end |-> EndDefault(today)]
  ELSE [start |-> NormalizedStart(url, today),
        end |-> NormalizedEnd(url, today)]

\* the values of a date parameter
DateParams == {Missing, Invalid} \cup {DateText(d) : d \in 0..MaxDay}

\* the clock: early, at noon and late in a day inside the parameters' days,
\* and in a day a month after them
Clock ==
  {DateUTC(d, h, m, m) : d \in {2, MaxDay + DEFAULT_RANGE_DAYS},
                         h \in {0, 12, 23}, m \in {0, 59}}

DateIdle == [start |-> Missing, end |-> Missing, today |-> 0]

InitDateIdle ==
  /\ dateReq = DateIdle
  /\ dateRes = <<>>

InitDate ==
  /\ dateReq \in [start : DateParams, end : DateParams, today : Clock]
  /\ dateRes = <<>>

\* the loader's call (line 482)
GetDateRange ==
  /\ dateRes = <<>>
  /\ dateRes' = <<getDateRange(dateReq, dateReq.today)>>
  /\ UNCHANGED <<dateReq, topVars, walkVars, bucketVars, sortVars, reportVars>>
  /\ UNCHANGED <<csvVars, presetVars, scanVars, loaderVars,
                 channelVars>>

NextDate == GetDateRange

----------------------------------------------------------------------------
(* Report page: buildBuckets *)

\* the sequences over S of length at most n
SeqsUpTo(S, n) == UNION {[1..k -> S] : k \in 0..n}

\* the buckets before the counting (lines 177-183).  A label `${edge}+` is
\* <<edge>>, a label `${edge}-${next - 1}` is <<edge, next - 1>>.
emptyBuckets(edges) ==
  [i \in 1..Len(edges) |->
     [label |-> IF i = Len(edges) THEN <<edges[i]>>
                ELSE <<edges[i], edges[i + 1] - 1>>,
      count |-> 0]]

\* the findIndex callback (lines 186-190), i counted from 1
edgeMatches(value, edges, i) ==
  IF i = Len(edges) THEN value >= edges[i]
  ELSE value >= edges[i] /\ value < edges[i + 1]

\* edges.findIndex(...): the first matching index, 0 for JavaScript's -1
findIndex(value, edges) ==
  LET hits == {i \in 1..Len(edges) : edgeMatches(value, edges, i)}
  IN  IF hits = {} THEN 0 ELSE CHOOSE i \in hits : \A j \in hits : i <= j

\* bucketIndex (line 191), counted from 1: 0 is JavaScript's index -1
bucketIndex(value, edges) ==
  IF findIndex(value, edges) = 0 THEN Len(edges) ELSE findIndex(value, edges)

\* a plausible slip: a value that matches no edge is left out
buildBucketsSkipUnmatched(values, edges) ==
  LET step[k \in 0..Len(values)] ==
        IF k = 0 THEN [threw |-> FALSE, buckets |-> emptyBuckets(edges)]
        ELSE IF findIndex(values[k], edges) = 0 THEN step[k - 1]
        ELSE [step[k - 1] EXCEPT
                !.buckets[findIndex(values[k], edges)].count = @ + 1]
  IN  step[Len(values)]

\* buildBuckets (lines 176-196).  buckets[bucketIndex].count += 1 throws a
\* TypeError when buckets[bucketIndex] is undefined.
buildBuckets(values, edges) ==
  LET step[k \in 0..Len(values)] ==
        IF k = 0 THEN [threw |-> FALSE, buckets |-> emptyBuckets(edges)]
        ELSE IF step[k - 1].threw THEN step[k - 1]
        ELSE IF bucketIndex(values[k], edges) \notin 1..Len(edges)
        THEN [step[k - 1] EXCEPT !.threw = TRUE]
        ELSE [step[k - 1] EXCEPT
                !.buckets[bucketIndex(values[k], edges)].count = @ + 1]
  IN  step[Len(values)]

BucketValues == -1..(MaxEdge + 1)
BucketEdges == 0..MaxEdge

InitBucketsIdle ==
  /\ bucketReq = [values |-> <<>>, edges |-> <<>>]
  /\ bucketRes = <<>>

InitBuckets ==
  /\ bucketReq \in [values : SeqsUpTo(BucketValues, MaxBucketValues),
                    edges : SeqsUpTo(BucketEdges, MaxEdges)]
  /\ bucketRes = <<>>

\* a call of buildBuckets (lines 477-485)
BuildBuckets ==
  /\ bucketRes = <<>>
  /\ bucketRes' = <<buildBuckets(bucketReq.values, bucketReq.edges)>>
  /\ UNCHANGED <<bucketReq, topVars, walkVars, dateVars, sortVars, reportVars>>
  /\ UNCHANGED <<csvVars, presetVars, scanVars, loaderVars,
                 channelVars>>

NextBuckets == BuildBuckets

----------------------------------------------------------------------------
(* Report page: sortCustomers *)

\* sortCustomers (lines 287-309): `sorted` is a copy, sorted in place and
\* returned; `customers` is the caller's array after the call
sortCustomers(customers, sort) ==
  [sorted |-> StableSort(customers, sort), customers |-> customers]

\* the customers sortCustomers is tried on
SortPool ==
  {[id |-> 10 * spent + orders, totalSpent |-> spent, ordersCount |-> orders] :
     spent \in Amounts, orders \in {1, 2}}

InitSortIdle ==
  /\ sortReq = [customers |-> <<>>, sort |-> "ltv_desc"]
  /\ sortRes = <<>>

InitSort ==
  /\ sortReq \in [customers : SeqsUpTo(SortPool, MaxSortLen), sort : SortKeys]
  /\ sortRes = <<>>

\* a call of sortCustomers (line 439)
SortCustomers ==
  /\ sortRes = <<>>
  /\ LET r == sortCustomers(sortReq.customers, sortReq.sort)
     IN  /\ sortRes' = <<[sorted |-> r.sorted, given |-> sortReq.customers]>>
         /\ sortReq' = [sortReq EXCEPT !.customers = r.customers]
  /\ UNCHANGED <<topVars, walkVars, dateVars, bucketVars, reportVars>>
  /\ UNCHANGED <<csvVars, presetVars, scanVars, loaderVars,
                 channelVars>>

NextSort == SortCustomers

----------------------------------------------------------------------------
(* Report page: the loader's filter *)

\* A string is the sequence of its characters.
toLowerCaseChar(ch) ==
  CASE ch = "A" -> "a" [] ch = "B" -> "b" [] ch = "N" -> "n"
    [] ch = "U" -> "u" [] ch = "V" -> "v" [] OTHER -> ch

\* String.prototype.toLowerCase
Lower(str) == [i \in 1..Len(str) |-> toLowerCaseChar(str[i])]

\* String.prototype.trim
Trim(str) ==
  LET inked == {i \in 1..Len(str) : str[i] # " "}
  IN  IF inked = {} THEN <<>>
      ELSE SubSeq(str, CHOOSE i \in inked : \A j \in inked : i <= j,
                       CHOOSE i \in inked : \A j \in inked : i >= j)

\* String.prototype.includes
Includes(str, part) ==
  \E i \in 1..(Len(str) - Len(part) + 1) :
     SubSeq(str, i, i + Len(part) - 1) = part

\* String.prototype.split(sep)
RECURSIVE Split(_, _)
Split(str, sep) ==
  LET at == {i \in 1..Len(str) : str[i] = sep}
  IN  IF at = {} THEN <<str>>
      ELSE LET first == CHOOSE i \in at : \A j \in at : i <= j
           IN  <<SubSeq(str, 1, first - 1)>>
                 \o Split(SubSeq(str, first + 1, Len(str)), sep)

\* Array.prototype.filter(Boolean) on strings: the empty ones go
RECURSIVE NonEmpty(_)
NonEmpty(strs) ==
  IF strs = <<>> THEN <<>>
  ELSE IF Head(strs) = <<>> THEN NonEmpty(Tail(strs))
  ELSE <<Head(strs)>> \o NonEmpty(Tail(strs))

\* a || b on optional strings: a when it is neither null nor empty
OrString(a, b) == IF a # <<>> /\ a[1] # <<>> THEN a[1] ELSE b

\* a customer as fetchAllCustomers pushes it (lines 255-277)
ToCustomer(node) ==
  [id |-> node.id,
   name |-> OrString(node.displayName,
                     OrString(node.email, <<"U", "n", "k", "n", "o", "w", "n">>)),
   email |-> OrString(node.email, <<"-">>),
   totalSpent |-> AmountOf(node),
   ordersCount |-> OrdersOf(node),
   createdAt |-> node.createdAt,
   firstOrderDate |-> node.firstOrderCreatedAt,
   tags |-> IF node.tags = <<>> THEN <<>>
            ELSE [i \in 1..Len(node.tags[1]) |-> Lower(node.tags[1][i])]]

\* A numeric parameter is missing, text that is no number, or a number's text
NumText(n) == [kind |-> "number", value |-> n]
NoNum == [kind |-> "missing", value |-> 0]
BadNum == [kind |-> "invalid", value |-> 0]

\* parseOptionalNumber (lines 114-118)
parseOptionalNumber(value) ==
  IF value.kind = "number" THEN <<value.value>> ELSE <<>>

\* parseDate (lines 120-125)
parseDate(value, endOfDay) ==
  IF value.kind # "date" THEN <<>>
  ELSE IF endOfDay THEN <<DateUTC(value.day, 23, 59, 59)>>
  ELSE <<DateUTC(value.day, 0, 0, 0)>>

\* normalizeQuery (lines 111-112)
normalizeQuery(value) == Lower(Trim(value))

\* parseTags (lines 127-131)
parseTags(value) ==
  LET parts == Split(value, ",")
  IN  NonEmpty([i \in 1..Len(parts) |-> Lower(Trim(parts[i]))])

\* parseTagsMode (lines 133-134)
parseTagsMode(value) == IF value = "all" THEN "all" ELSE "any"

\* parseSort (lines 98-109)
parseSort(value) == IF value \in SortKeys THEN value ELSE "ltv_desc"

\* the parsed parameters of the loader (lines 358-382)
ParseParams(params) ==
  [sort |-> parseSort(params.sort),
   query |-> normalizeQuery(params.q),
   tagsList |-> parseTags(params.tags),
   tagsMode |-> parseTagsMode(params.tags_mode),
   minOrdersValue |-> parseOptionalNumber(params.min_orders),
   maxOrdersValue |-> parseOptionalNumber(params.max_orders),
   minSpentValue |-> parseOptionalNumber(params.min_spent),
   maxSpentValue |-> parseOptionalNumber(params.max_spent),
   createdStartDate |-> parseDate(params.created_start, FALSE),
   createdEndDate |-> parseDate(params.created_end, TRUE),
   firstOrderStartDate |-> parseDate(params.first_order_start, FALSE),
   firstOrderEndDate |-> parseDate(params.first_order_end, TRUE)]

\* hasTag (line 411)
HasTag(customer, tag) == \E i \in 1..Len(customer.tags) : customer.tags[i] = tag

\* a plausible slip: `every` and `some` are the wrong way round
passesFilterModesSwapped(customer, f) ==
  /\ (f.query # <<>> =>
        \/ Includes(Lower(customer.name), f.query)
        \/ Includes(Lower(customer.email), f.query))
  /\ ~(f.minOrdersValue # <<>> /\ customer.ordersCount < f.minOrdersValue[1])
  /\ ~(f.maxOrdersValue # <<>> /\ customer.ordersCount > f.maxOrdersValue[1])
  /\ ~(f.minSpentValue # <<>> /\ customer.totalSpent < f.minSpentValue[1])
  /\ ~(f.maxSpentValue # <<>> /\ customer.totalSpent > f.maxSpentValue[1])
  /\ (f.tagsList # <<>> =>
        IF f.tagsMode = "all"
        THEN \E i \in 1..Len(f.tagsList) : HasTag(customer, f.tagsList[i])
        ELSE \A i \in 1..Len(f.tagsList) : HasTag(customer, f.tagsList[i]))
  /\ ((f.createdStartDate # <<>> \/ f.createdEndDate # <<>>) =>
        /\ customer.createdAt # <<>>
        /\ ~(f.createdStartDate # <<>>
             /\ customer.createdAt[1] < f.createdStartDate[1])
        /\ ~(f.createdEndDate # <<>>
             /\ customer.createdAt[1] > f.createdEndDate[1]))
  /\ ((f.firstOrderStartDate # <<>> \/ f.firstOrderEndDate # <<>>) =>
        /\ customer.firstOrderDate # <<>>
        /\ ~(f.firstOrderStartDate # <<>>
             /\ customer.firstOrderDate[1] < f.firstOrderStartDate[1])
        /\ ~(f.firstOrderEndDate # <<>>
             /\ customer.firstOrderDate[1] > f.firstOrderEndDate[1]))

\* a plausible slip: a customer without createdAt passes the created-at range
passesFilterKeepsUndated(customer, f) ==
  /\ (f.query # <<>> =>
        \/ Includes(Lower(customer.name), f.query)
        \/ Includes(Lower(customer.email), f.query))
  /\ ~(f.minOrdersValue # <<>> /\ customer.ordersCount < f.minOrdersValue[1])
  /\ ~(f.maxOrdersValue # <<>> /\ customer.ordersCount > f.maxOrdersValue[1])
  /\ ~(f.minSpentValue # <<>> /\ customer.totalSpent < f.minSpentValue[1])
  /\ ~(f.maxSpentValue # <<>> /\ customer.totalSpent > f.maxSpentValue[1])
  /\ (f.tagsList # <<>> =>
        IF f.tagsMode = "all"
        THEN \A i \in 1..Len(f.tagsList) : HasTag(customer, f.tagsList[i])
        ELSE \E i \in 1..Len(f.tagsList) : HasTag(customer, f.tagsList[i]))
  /\ ((f.createdStartDate # <<>> \/ f.createdEndDate # <<>>) =>
        (customer.createdAt # <<>> =>
           /\ ~(f.createdStartDate # <<>>
                /\ customer.createdAt[1] < f.createdStartDate[1])
           /\ ~(f.createdEndDate # <<>>
                /\ customer.createdAt[1] > f.createdEndDate[1])))
  /\ ((f.firstOrderStartDate # <<>> \/ f.firstOrderEndDate # <<>>) =>
        /\ customer.firstOrderDate # <<>>
        /\ ~(f.firstOrderStartDate # <<>>
             /\ customer.firstOrderDate[1] < f.firstOrderStartDate[1])
        /\ ~(f.firstOrderEndDate # <<>>
             /\ customer.firstOrderDate[1] > f.firstOrderEndDate[1]))

\* the callback of customers.filter (lines 385-438): every test that does
\* not return false
passesFilter(customer, f) ==
  /\ (f.query # <<>> =>
        \/ Includes(Lower(customer.name), f.query)
        \/ Includes(Lower(customer.email), f.query))
  /\ ~(f.minOrdersValue # <<>> /\ customer.ordersCount < f.minOrdersValue[1])
  /\ ~(f.maxOrdersValue # <<>> /\ customer.ordersCount > f.maxOrdersValue[1])
  /\ ~(f.minSpentValue # <<>> /\ customer.totalSpent < f.minSpentValue[1])
  /\ ~(f.maxSpentValue # <<>> /\ customer.totalSpent > f.maxSpentValue[1])
  /\ (f.tagsList # <<>> =>
        IF f.tagsMode = "all"
        THEN \A i \in 1..Len(f.tagsList) : HasTag(customer, f.tagsList[i])
        ELSE \E i \in 1..Len(f.tagsList) : HasTag(customer, f.tagsList[i]))
  /\ ((f.createdStartDate # <<>> \/ f.createdEndDate # <<>>) =>
        /\ customer.createdAt # <<>>
        /\ ~(f.createdStartDate # <<>>
             /\ customer.createdAt[1] < f.createdStartDate[1])
        /\ ~(f.createdEndDate # <<>>
             /\ customer.createdAt[1] > f.createdEndDate[1]))
  /\ ((f.firstOrderStartDate # <<>> \/ f.firstOrderEndDate # <<>>) =>
        /\ customer.firstOrderDate # <<>>
        /\ ~(f.firstOrderStartDate # <<>>
             /\ customer.firstOrderDate[1] < f.firstOrderStartDate[1])
        /\ ~(f.firstOrderEndDate # <<>>
             /\ customer.firstOrderDate[1] > f.firstOrderEndDate[1]))

\* customers.filter(...) (line 385)
filterCustomers(customers, f) ==
  SelectSeq(customers, LAMBDA customer : passesFilter(customer, f))

----------------------------------------------------------------------------
(* Report page: escapeCsv *)

\* the decimal digits of a natural number, as String(value) writes them
RECURSIVE NumString(_)
NumString(n) ==
  LET digit == <<"0", "1", "2", "3", "4", "5", "6", "7", "8", "9">>[(n % 10) + 1]
  IN  IF n < 10 THEN <<digit>> ELSE Append(NumString(n \div 10), digit)

\* the text of a timestamp: the model writes an instant by its number, which
\* like the ISO text holds no quote, comma or line break
TimeString(t) == <<"T">> \o NumString(t)

\* /[",\n]/.test(text) (line 170)
NeedsQuotes(text) == \E i \in 1..Len(text) : text[i] \in {"\"", ",", "\n"}

\* text.replace(/"/g, "\"\"") (line 171)
RECURSIVE DoubleQuotes(_)
DoubleQuotes(text) ==
  IF text = <<>> THEN <<>>
  ELSE IF Head(text) = "\"" THEN <<"\"", "\"">> \o DoubleQuotes(Tail(text))
  ELSE <<Head(text)>> \o DoubleQuotes(Tail(text))

\* escapeCsv (lines 167-174); value is <<>> for null, <<text>> otherwise,
\* the text of a number being NumString of it
escapeCsv(value) ==
  IF value = <<>> THEN <<>>
  ELSE IF NeedsQuotes(value[1])
       THEN <<"\"">> \o DoubleQuotes(value[1]) \o <<"\"">>
  ELSE value[1]

\* Array.prototype.join
RECURSIVE Join(_, _)
Join(strs, sep) ==
  IF strs = <<>> THEN <<>>
  ELSE IF Len(strs) = 1 THEN strs[1]
  ELSE strs[1] \o sep \o Join(Tail(strs), sep)

\* the characters the calls are tried on
CsvChars == {"a", ",", "\"", "\n", "\r"}

InitCsvIdle ==
  /\ csvReq = <<>>
  /\ csvRes = <<>>

InitCsv ==
  /\ csvReq \in {<<text>> : text \in SeqsUpTo(CsvChars, MaxCsvLen)}
  /\ csvRes = <<>>

\* a call of escapeCsv on a text (line 509)
EscapeCsv ==
  /\ csvRes = <<>>
  /\ csvRes' = <<escapeCsv(csvReq)>>
  /\ UNCHANGED <<csvReq, topVars, walkVars, dateVars, bucketVars, sortVars,
                 reportVars, presetVars, scanVars, loaderVars,
                 channelVars>>

NextCsv == EscapeCsv

----------------------------------------------------------------------------
(* Report page: fetchAllCustomers, pagination and export *)

\* A number that may have a fraction is written in halves: n stands for n/2.
Halves(n) == 2 * n

\* The page parameter: missing, text that is no positive finite number's, or
\* the text of the number value/2
PageText(halves) == [kind |-> "number", value |-> halves]

\* parseNumber (lines 92-96), value and fallback in halves
parseNumber(value, fallback) ==
  IF value.kind = "number" /\ value.value > 0 THEN value.value ELSE fallback

\* perPage (lines 442-445), in halves
perPage(perPageParam) ==
  IF perPageParam.kind \notin {"missing", "all"}
  THEN parseNumber(perPageParam, Halves(DEFAULT_PAGE_SIZE))
  ELSE Halves(DEFAULT_PAGE_SIZE)

\* safePerPage (lines 446-450)
safePerPage(totalCustomers, perPageParam) ==
  IF perPageParam.kind = "all" THEN Max(totalCustomers, 1)
  ELSE IF \E option \in PAGE_SIZE_OPTIONS :
             perPage(perPageParam) = Halves(option)
       THEN perPage(perPageParam) \div 2
  ELSE DEFAULT_PAGE_SIZE

\* Math.ceil(a / b) for a >= 0, b > 0
CeilDiv(a, b) == (a + b - 1) \div b

\* totalPages (line 452)
totalPages(totalCustomers, perPageParam) ==
  Max(1, CeilDiv(totalCustomers, safePerPage(totalCustomers, perPageParam)))

\* currentPage (lines 360 and 453), in halves
currentPage(totalCustomers, pageParam, perPageParam) ==
  Min(Max(Halves(1), parseNumber(pageParam, Halves(1))),
      Halves(totalPages(totalCustomers, perPageParam)))

\* startIndex (line 454), in halves
startIndex(totalCustomers, pageParam, perPageParam) ==
  (currentPage(totalCustomers, pageParam, perPageParam) - Halves(1))
    * safePerPage(totalCustomers, perPageParam)

\* Array.prototype.slice(start, end) for start, end >= 0 given in halves:
\* slice truncates them to integers
SliceHalves(s, start, end) ==
  SubSeq(s, (start \div 2) + 1, Min(end \div 2, Len(s)))

\* a plausible slip: the export takes the rows of the current page
exportedCustomersOfPage(sorted, pageParam, perPageParam) ==
  SliceHalves(sorted,
              startIndex(Len(sorted), pageParam, perPageParam),
              startIndex(Len(sorted), pageParam, perPageParam)
                + Halves(safePerPage(Len(sorted), perPageParam)))

\* the customers the export writes (line 498)
exportedCustomers(sorted, pageParam, perPageParam) == sorted

\* the header of the export (lines 489-497)
CsvHeader ==
  << <<"C", "u", "s", "t", "o", "m", "e", "r">>,
     <<"E", "m", "a", "i", "l">>,
     <<"O", "r", "d", "e", "r", "s">>,
     <<"T", "o", "t", "a", "l", "S", "p", "e", "n", "t">>,
     <<"C", "u", "s", "t", "o", "m", "e", "r", "C", "r", "e", "a", "t", "e",
       "d", "A", "t">>,
     <<"F", "i", "r", "s", "t", "O", "r", "d", "e", "r", "D", "a", "t", "e">>,
     <<"T", "a", "g", "s">> >>

\* the row of a customer (lines 498-506)
CsvRow(customer) ==
  << customer.name,
     customer.email,
     NumString(customer.ordersCount),
     NumString(customer.totalSpent),
     IF customer.createdAt = <<>> THEN <<>>
     ELSE TimeString(customer.createdAt[1]),
     IF customer.firstOrderDate = <<>> THEN <<>>
     ELSE TimeString(customer.firstOrderDate[1]),
     Join(customer.tags, <<",", " ">>) >>

\* rows (lines 488-507)
CsvRows(customers) ==
  <<CsvHeader>> \o [i \in 1..Len(customers) |-> CsvRow(customers[i])]

\* csv (line 509)
CsvText(rows) ==
  Join([r \in 1..Len(rows) |->
          Join([c \in 1..Len(rows[r]) |-> escapeCsv(<<rows[r][c]>>)], <<",">>)],
       <<"\n">>)

\* The upstream of the report: it serves the shop's customers in pages of
\* pageLen, and its errorAt-th response carries errors (0: none does)
NoErrors == [pageLen |-> PAGE_SIZE, errorAt |-> 0]

\* a plausible slip: a response with errors ends the walk with what was read
fetchLoopKeepsPages(nodes, up, k, served, cursors) ==
  LET pages == IF up.errorAt = 0 THEN CeilDiv(Len(nodes), up.pageLen)
               ELSE Min(up.errorAt - 1, CeilDiv(Len(nodes), up.pageLen))
      upto == Min(pages * up.pageLen, Len(nodes))
  IN  [threw |-> FALSE,
       requests |-> [i \in 1..Max(1, pages) |->
                       EndCursor((i - 1) * up.pageLen)],
       customers |-> [i \in 1..upto |-> ToCustomer(nodes[i])]]

\* the while loop of fetchAllCustomers (lines 213-282) from its k-th request:
\* served customers are behind it, cursors are the `after` values sent so far
RECURSIVE fetchLoop(_, _, _, _, _)
fetchLoop(nodes, up, k, served, cursors) ==
  LET sent == Append(cursors,
                     IF k = 1 THEN <<>>
                     ELSE nextCursor([endCursor |-> EndCursor(served),
                                      hasNextPage |-> TRUE]))
      upto == Min(served + up.pageLen, Len(nodes))
  IN  IF k = up.errorAt
      THEN [threw |-> TRUE, requests |-> sent, customers |-> <<>>]
      ELSE IF upto < Len(nodes)
           THEN fetchLoop(nodes, up, k + 1, upto, sent)
      ELSE [threw |-> FALSE, requests |-> sent,
            customers |-> [i \in 1..Len(nodes) |-> ToCustomer(nodes[i])]]

\* fetchAllCustomers of the report page (lines 198-285)
fetchAllCustomers(nodes, up) == fetchLoop(nodes, up, 1, 0, <<>>)

\* The upstream's customers the report is tried on
Str(a, b) == <<a, b>>
ReportNodes ==
  << [id |-> 1, displayName |-> <<Str("A", "l")>>,
      email |-> <<Str("a", "@")>>, createdAt |-> <<DateUTC(1, 12, 0, 0)>>,
      numberOfOrders |-> <<1>>, tags |-> <<<<Str("V", "i")>>>>,
      amountSpent |-> <<[amount |-> 1, currencyCode |-> "USD"]>>,
      firstOrderCreatedAt |-> <<DateUTC(1, 12, 0, 0)>>],
     [id |-> 2, displayName |-> <<>>, email |-> <<>>, createdAt |-> <<>>,
      numberOfOrders |-> <<>>, tags |-> <<>>, amountSpent |-> <<>>,
      firstOrderCreatedAt |-> <<>>],
     [id |-> 3, displayName |-> <<Str("B", "o")>>, email |-> <<>>,
      createdAt |-> <<DateUTC(2, 0, 0, 0)>>, numberOfOrders |-> <<2>>,
      tags |-> <<<<Str("v", "i"), Str("n", "u")>>>>,
      amountSpent |-> <<[amount |-> 2, currencyCode |-> "USD"]>>,
      firstOrderCreatedAt |-> <<DateUTC(0, 0, 0, 0)>>],
     [id |-> 4, displayName |-> <<>>, email |-> <<Str("a", "l")>>,
      createdAt |-> <<DateUTC(0, 23, 59, 59)>>, numberOfOrders |-> <<1>>,
      tags |-> <<<<Str("N", "U")>>>>,
      amountSpent |-> <<[amount |-> 0, currencyCode |-> "USD"]>>,
      firstOrderCreatedAt |-> <<DateUTC(2, 23, 59, 59)>>] >>

\* the subsequence of s at the positions in keep
RECURSIVE Pick(_, _)
Pick(s, keep) ==
  IF s = <<>> THEN <<>>
  ELSE LET rest == Pick(Tail(s), {i - 1 : i \in keep \ {1}})
       IN  IF 1 \in keep THEN <<Head(s)>> \o rest ELSE rest

\* the shops: any of these customers, in this order
NodeLists == {Pick(ReportNodes, keep) : keep \in SUBSET (1..Len(ReportNodes))}

\* The settings of the filter parameters the report is tried on
QuerySettings == {<<>>, <<" ", "A", " ">>, <<"B", "o">>}
OrdersSettings ==
  {<<NoNum, NoNum>>, <<NumText(1), BadNum>>, <<NoNum, NumText(1)>>}
SpentSettings ==
  {<<NoNum, NoNum>>, <<NumText(1), NumText(1)>>, <<BadNum, NumText(0)>>}
TagsSettings ==
  {<<>>, <<",", " ">>, <<"V", "i", ",", " ", "n", "U", ",">>, <<"v", "i">>}
CreatedSettings ==
  {<<Missing, Missing>>, <<DateText(1), Invalid>>, <<Missing, DateText(1)>>}
FirstOrderSettings ==
  {<<Missing, Missing>>, <<DateText(0), DateText(1)>>}

\* the url parameters made of one setting per filter
ParamsOver(Q, T, M, O, S, C, F) ==
  {[sort |-> "ltv_desc", q |-> q, tags |-> tags, tags_mode |-> mode,
    min_orders |-> o[1], max_orders |-> o[2],
    min_spent |-> sp[1], max_spent |-> sp[2],
    created_start |-> cr[1], created_end |-> cr[2],
    first_order_start |-> fo[1], first_order_end |-> fo[2]] :
     q \in Q, tags \in T, mode \in M, o \in O, sp \in S, cr \in C, fo \in F}

ReportParams ==
  ParamsOver(QuerySettings, TagsSettings, {"any", "all"}, OrdersSettings,
             SpentSettings, CreatedSettings, FirstOrderSettings)

\* every filter either left out or requested, in one setting
OnOffParams ==
  ParamsOver({<<>>, <<" ", "A", " ">>},
             {<<>>, <<"V", "i", ",", " ", "n", "U", ",">>},
             {"any", "all"},
             {<<NoNum, NoNum>>, <<NumText(1), BadNum>>},
             {<<NoNum, NoNum>>, <<NumText(1), NumText(1)>>},
             {<<Missing, Missing>>, <<Missing, DateText(1)>>},
             {<<Missing, Missing>>, <<DateText(0), DateText(1)>>})

\* larger shops, for the pages of the report: customer k of the upstream
BulkNode(k) ==
  [id |-> k,
   displayName |-> IF k % 3 = 0 THEN <<>> ELSE <<<<"c">> \o NumString(k)>>,
   email |-> IF k % 4 = 0 THEN <<>> ELSE <<NumString(k) \o <<"@">>>>,
   createdAt |-> IF k % 6 = 0 THEN <<>> ELSE <<DateUTC(k % 3, 12, 0, 0)>>,
   numberOfOrders |-> CustomerNode(k).numberOfOrders,
   tags |-> IF k % 2 = 0 THEN <<>> ELSE <<<<Str("V", "i"), Str("n", "u")>>>>,
   amountSpent |-> CustomerNode(k).amountSpent,
   firstOrderCreatedAt |-> IF k % 5 = 0 THEN <<>>
                           ELSE <<DateUTC(k % 2, 0, 0, 0)>>]

\* their sizes: empty, one page of the smallest size, a page and a customer,
\* two pages and a customer
ShopSizes == {0, 50, 50 + 1, 2 * 50 + 1}
BulkShops == {[k \in 1..n |-> BulkNode(k)] : n \in ShopSizes}

\* The page, per_page and export parameters the report is tried on
PerPageAll == [kind |-> "all", value |-> 0]
NoPaging == [page |-> NoNum, per_page |-> NoNum, export |-> ""]
PageSettings ==
  {NoNum, BadNum} \cup {PageText(h) : h \in (-2)..Halves(MaxPage)}
PerPageSettings ==
  {NoNum, BadNum, PerPageAll, PageText(Halves(50)),
   PageText(Halves(100)), PageText(Halves(7)), PageText(Halves(50) + 1)}
PagingSettings ==
  [page : PageSettings, per_page : PerPageSettings, export : {"", "csv"}]

\* the filter left out, the customers in one of two orders
SortOnlyParams ==
  {[sort |-> sort, q |-> <<>>, tags |-> <<>>, tags_mode |-> "any",
    min_orders |-> NoNum, max_orders |-> NoNum,
    min_spent |-> NoNum, max_spent |-> NoNum,
    created_start |-> Missing, created_end |-> Missing,
    first_order_start |-> Missing, first_order_end |-> Missing] :
     sort \in {"ltv_desc", "orders_asc"}}

\* upstreams some response of which may carry errors
Upstreams == [pageLen : {50, PAGE_SIZE}, errorAt : 0..MaxErrorAt]

InitReportIdle ==
  /\ reportReq = [nodes |-> <<>>, params |-> <<>>, paging |-> NoPaging,
                  upstream |-> NoErrors]
  /\ reportRes = <<>>

InitReportRequest ==
  /\ reportReq \in [nodes : NodeLists, params : ReportParams,
                    paging : {NoPaging}, upstream : {NoErrors}]
  /\ reportRes = <<>>

InitOnOffRequest ==
  /\ reportReq \in [nodes : NodeLists, params : OnOffParams,
                    paging : {NoPaging}, upstream : {NoErrors}]
  /\ reportRes = <<>>

\* requests for a page or for the export, of shops of several pages
InitPagedRequest ==
  /\ reportReq \in [nodes : BulkShops \cup {ReportNodes},
                    params : SortOnlyParams,
                    paging : PagingSettings, upstream : {NoErrors}]
  /\ reportRes = <<>>

\* requests to an upstream that may answer with errors
InitUpstreamRequest ==
  /\ reportReq \in [nodes : BulkShops \cup {ReportNodes},
                    params : SortOnlyParams,
                    paging : [page : {NoNum}, per_page : {NoNum},
                              export : {"", "csv"}],
                    upstream : Upstreams]
  /\ reportRes = <<>>

\* the loader of the report page (lines 354-455 and 487-548); its listing of
\* the presets (lines 457-475) is ListPresets, its charts (lines 477-485)
\* are BuildBuckets
LoadReport ==
  /\ DOMAIN reportReq.params # {}
  /\ reportRes = <<>>
  /\ LET f == ParseParams(reportReq.params)
         pageParam == reportReq.paging.page
         perPageParam == reportReq.paging.per_page
         fetched == fetchAllCustomers(reportReq.nodes, reportReq.upstream)
         customers == fetched.customers
         filtered == filterCustomers(customers, f)
         sorted == sortCustomers(filtered, f.sort).sorted
         totalCustomers == Len(sorted)
         start == startIndex(totalCustomers, pageParam, perPageParam)
         exportCsv == reportReq.paging.export = "csv"
         exported == exportedCustomers(sorted, pageParam, perPageParam)
     IN  reportRes' =
           IF fetched.threw
           THEN <<[threw |-> TRUE, requests |-> fetched.requests]>>
           ELSE <<[threw |-> FALSE,
                   requests |-> fetched.requests,
                   parsed |-> f,
                   customers |-> customers,
                   filtered |-> filtered,
                   sorted |-> sorted,
                   totalCustomers |-> totalCustomers,
                   perPage |-> safePerPage(totalCustomers, perPageParam),
                   page |-> currentPage(totalCustomers, pageParam,
                                        perPageParam),
                   isCsv |-> exportCsv,
                   rows |-> IF exportCsv THEN CsvRows(exported) ELSE <<>>,
                   pageCustomers |->
                     IF exportCsv THEN <<>>
                     ELSE SliceHalves(sorted, start, start
                            + Halves(safePerPage(totalCustomers,
                                                 perPageParam)))]>>
  /\ UNCHANGED <<reportReq, topVars, walkVars, dateVars, bucketVars, sortVars>>
  /\ UNCHANGED <<csvVars, presetVars, scanVars, loaderVars,
                 channelVars>>

NextReport == LoadReport

----------------------------------------------------------------------------
(* Analytics page: formatUtm and formatReferrerChannel *)

\* a string that is neither null nor empty (JavaScript truthiness)
Truthy(text) == text # <<>> /\ text[1] # <<>>

\* one entry of the parts array (lines 146-150): `key=value` or null
utmPart(key, value) ==
  IF Truthy(value) THEN <<key \o <<"=">> \o value[1]>> ELSE <<>>

\* formatUtm (lines 137-154): null, or the parts joined with ", "
formatUtm(utm) ==
  IF utm = <<>> THEN <<>>
  ELSE LET parts ==
             utmPart(<<"s", "o", "u", "r", "c", "e">>, utm[1].source)
               \o utmPart(<<"m", "e", "d", "i", "u", "m">>, utm[1].medium)
               \o utmPart(<<"c", "a", "m", "p", "a", "i", "g", "n">>,
                          utm[1].campaign)
               \o utmPart(<<"t", "e", "r", "m">>, utm[1].term)
               \o utmPart(<<"c", "o", "n", "t", "e", "n", "t">>,
                          utm[1].content)
       IN  IF Len(parts) # 0 THEN <<Join(parts, <<",", " ">>)>> ELSE <<>>

\* new URL(text).hostname on the texts the calls are tried on, which are
\* `scheme://host/path` or have no scheme: <<>> when the constructor throws,
\* else <<the host in lower case>>
URLhostname(text) ==
  LET colons == {i \in 1..Len(text) : text[i] = ":"}
  IN  IF colons = {} THEN <<>>
      ELSE LET colon == CHOOSE i \in colons : \A j \in colons : i <= j
               rest == SubSeq(text, colon + 3, Len(text))
               slashes == {i \in 1..Len(rest) : rest[i] = "/"}
               host == IF slashes = {} THEN rest
                       ELSE SubSeq(rest, 1,
                              (CHOOSE i \in slashes :
                                 \A j \in slashes : i <= j) - 1)
           IN  IF /\ colon > 1
                  /\ \A i \in 1..(colon - 1) : text[i] \notin {"/", "."}
                  /\ SubSeq(text, colon + 1, colon + 2) = <<"/", "/">>
                  /\ host # <<>>
               THEN <<Lower(host)>>
               ELSE <<>>

UnknownChannel == <<"U", "n", "k", "n", "o", "w", "n">>

\* visit.utmParameters?.source and ?.medium (line 172)
utmField(visit, field) ==
  IF visit.utmParameters = <<>> THEN <<>>
  ELSE visit.utmParameters[1][field]

\* a plausible slip: the named source is looked at before the UTM fields
formatReferrerChannelSourceFirst(visit) ==
  IF visit = <<>> THEN UnknownChannel
  ELSE IF Truthy(visit[1].source)
  THEN visit[1].source[1]
         \o (IF Truthy(visit[1].sourceDescription)
             THEN <<" ", "-", " ">> \o visit[1].sourceDescription[1]
             ELSE <<>>)
  ELSE IF \/ Truthy(utmField(visit[1], "source"))
          \/ Truthy(utmField(visit[1], "medium"))
  THEN LET utm == formatUtm(visit[1].utmParameters)
       IN  IF utm # <<>> /\ utm[1] # <<>>
           THEN <<"U", "T", "M", " ", "(">> \o utm[1] \o <<")">>
           ELSE <<"U", "T", "M">>
  ELSE IF Truthy(visit[1].referrerUrl)
  THEN IF URLhostname(visit[1].referrerUrl[1]) # <<>>
       THEN URLhostname(visit[1].referrerUrl[1])[1]
       ELSE visit[1].referrerUrl[1]
  ELSE UnknownChannel

\* formatReferrerChannel (lines 156-193)
formatReferrerChannel(visit) ==
  IF visit = <<>> THEN UnknownChannel
  ELSE IF \/ Truthy(utmField(visit[1], "source"))
          \/ Truthy(utmField(visit[1], "medium"))
  THEN LET utm == formatUtm(visit[1].utmParameters)
       IN  IF utm # <<>> /\ utm[1] # <<>>
           THEN <<"U", "T", "M", " ", "(">> \o utm[1] \o <<")">>
           ELSE <<"U", "T", "M">>
  ELSE IF Truthy(visit[1].source)
  THEN visit[1].source[1]
         \o (IF Truthy(visit[1].sourceDescription)
             THEN <<" ", "-", " ">> \o visit[1].sourceDescription[1]
             ELSE <<>>)
  ELSE IF Truthy(visit[1].referrerUrl)
  THEN IF URLhostname(visit[1].referrerUrl[1]) # <<>>
       THEN URLhostname(visit[1].referrerUrl[1])[1]
       ELSE visit[1].referrerUrl[1]
  ELSE UnknownChannel

\* The visits the calls are tried on.  A text is null, empty or given; the
\* term and the content of the UTM parameters are null or given.
Texts(text) == {<<>>, <<<<>>>>, <<text>>}
GivenOrNot(text) == {<<>>, <<text>>}
UtmParameters ==
  {<<>>} \cup
  {<<utm>> : utm \in [source : Texts(<<"g">>), medium : Texts(<<"c">>),
                      campaign : GivenOrNot(<<"x">>),
                      term : GivenOrNot(<<"t">>),
                      content : GivenOrNot(<<"n">>)]}
ReferrerUrls ==
  {<<>>, <<<<>>>>, <<<<"h", ":", "/", "/", "A", ".", "b", "/", "p">>>>,
   <<<<"A", ".", "b">>>>}
Visits ==
  {<<>>} \cup
  {<<visit>> : visit \in [source : Texts(<<"d">>),
                          sourceDescription : Texts(<<"e">>),
                          referrerUrl : ReferrerUrls,
                          utmParameters : UtmParameters]}

InitChannelIdle ==
  /\ channelReq = <<>>
  /\ channelRes = <<>>

InitChannel ==
  /\ channelReq \in {<<visit>> : visit \in Visits}
  /\ channelRes = <<>>

\* a call of formatReferrerChannel on a visit (line 354)
FormatReferrerChannel ==
  /\ channelReq # <<>>
  /\ channelRes = <<>>
  /\ channelRes' = <<formatReferrerChannel(channelReq[1])>>
  /\ UNCHANGED <<channelReq, topVars, walkVars, dateVars, bucketVars,
                 sortVars, reportVars, csvVars, presetVars, scanVars,
                 loaderVars>>

NextChannel == FormatReferrerChannel

----------------------------------------------------------------------------
(* Analytics page: fetchOrdersInRange and the loader *)

\* the range the loader got from getDateRange (line 482)
RangeStart == dateRes[1].start
RangeEnd == dateRes[1].end

\* The upstream's orders of the range come in creation order (sortKey:
\* CREATED_AT): the k-th was created k hours after the start of the range.
OrderCreatedAt(k) == RangeStart + k * 3600

\* The customer of an order: none, or one of two customers, with a first
\* order the upstream gives as before the range or as in the range, or with
\* none given and one or two lifetime orders.
OrderCustomerOf(id, n, first) ==
  [id |-> id, displayName |-> <<>>, email |-> <<>>,
   amountSpent |-> <<[amount |-> 1, currencyCode |-> "USD"]>>,
   numberOfOrders |-> <<n>>, firstOrderCreatedAt |-> first]

OrderCustomers ==
  {<<>>}
    \cup {<<OrderCustomerOf(id, n, <<>>)>> : id \in {"c1", "c2"}, n \in {1, 2}}
    \cup {<<OrderCustomerOf(id, 2, <<first>>)>> :
            id \in {"c1", "c2"},
            first \in {RangeStart - 1, RangeStart + 5400}}

\* the branch of the fallback rule (line 442)
usesFallback(customer) ==
  customer.firstOrderCreatedAt = <<>> /\ OrdersOf(customer) = 1

\* a plausible slip: the fallback takes any customer without a first order
isNewCustomerAnyCount(customer, start, end) ==
  IF customer.firstOrderCreatedAt # <<>>
  THEN /\ customer.firstOrderCreatedAt[1] >= start
       /\ customer.firstOrderCreatedAt[1] <= end
  ELSE TRUE

\* isNewCustomer (lines 436-446)
isNewCustomer(customer, start, end) ==
  IF customer.firstOrderCreatedAt # <<>>
  THEN /\ customer.firstOrderCreatedAt[1] >= start
       /\ customer.firstOrderCreatedAt[1] <= end
  ELSE OrdersOf(customer) = 1

\* the entry of a new customer (lines 451-458)
newCustomerEntry(order) ==
  LET customer == order.customer[1]
  IN  [id |-> customer.id,
       name |-> OrString(customer.displayName,
                   OrString(customer.email,
                            <<"U", "n", "k", "n", "o", "w", "n">>)),
       email |-> OrString(customer.email, <<"-">>),
       firstOrderDate |-> IF customer.firstOrderCreatedAt # <<>>
                          THEN customer.firstOrderCreatedAt[1]
                          ELSE order.createdAt,
       totalSpent |-> AmountOf(customer),
       ordersCount |-> OrdersOf(customer)]

\* newCustomersMap.has(id)
mapHas(map, id) == \E i \in 1..Len(map) : map[i].id = id

\* a plausible slip: a later order of a customer replaces the entry
mapSetOverwrites(map, entry) ==
  IF mapHas(map, entry.id)
  THEN [i \in 1..Len(map) |-> IF map[i].id = entry.id THEN entry ELSE map[i]]
  ELSE Append(map, entry)

\* lines 450-459: the entry is set unless the map has the customer; a Map
\* keeps its entries in the order they were first set
mapSetIfAbsent(map, entry) ==
  IF mapHas(map, entry.id) THEN map ELSE Append(map, entry)

NoOrdersPage ==
  [orders |-> 0, done |-> 0, hasNextPage |-> FALSE, endCursor |-> <<>>]

\* the while test (line 375)
ScanContinues == ordersHasNextPage /\ scanOrdersCount < MAX_ORDERS

\* line 486: the loader calls fetchOrdersInRange once the customer walk has
\* returned
StartScan ==
  /\ pc = "returned"
  /\ scanPc = "idle"
  /\ scanPc' = "loop"
  /\ UNCHANGED <<ordersHasNextPage, ordersAfter, scanOrdersCount,
                 ordersTruncated, usedFallback, newCustomersMap, ordersPage,
                 ordersSeen, scanRes>>
  /\ UNCHANGED <<topVars, walkVars, dateVars, bucketVars, sortVars,
                 reportVars, csvVars, presetVars, loaderVars,
                 channelVars, ordersUpstream>>

\* the request of an iteration and its response without errors
\* (lines 376-421): the response holds the next n orders of the upstream
FetchOrdersPage ==
  /\ scanPc = "loop"
  /\ ScanContinues
  /\ \E n \in 0..Min(2, MaxScanOrders - Len(ordersSeen)), more \in BOOLEAN :
       /\ ordersPage' = [orders |-> n, done |-> 0, hasNextPage |-> more,
                          endCursor |-> EndCursor(Len(ordersSeen) + n)]
       /\ ordersUpstream' =
            [requested |-> ordersAfter,
             responded |-> <<[endCursor |-> EndCursor(Len(ordersSeen) + n),
                              hasNextPage |-> more]>>]
  /\ scanPc' = "page"
  /\ UNCHANGED <<ordersHasNextPage, ordersAfter, scanOrdersCount,
                 ordersTruncated, usedFallback, newCustomersMap, ordersSeen,
                 scanRes>>
  /\ UNCHANGED <<topVars, walkVars, dateVars, bucketVars, sortVars,
                 reportVars, csvVars, presetVars, loaderVars,
                 channelVars>>

\* one pass of the for loop's body (lines 423-460); the order's customer is
\* what the upstream has put into the response
ProcessOrder ==
  /\ scanPc = "page"
  /\ ordersPage.done < ordersPage.orders
  /\ \E customer \in OrderCustomers :
       LET order == [createdAt |-> OrderCreatedAt(Len(ordersSeen) + 1),
                     customer |-> customer]
       IN  /\ ordersSeen' = Append(ordersSeen, order)
           /\ usedFallback' =
                IF customer # <<>> /\ usesFallback(customer[1]) THEN TRUE
                ELSE usedFallback
           /\ newCustomersMap' =
                IF customer # <<>>
                   /\ isNewCustomer(customer[1], RangeStart, RangeEnd)
                THEN mapSetIfAbsent(newCustomersMap, newCustomerEntry(order))
                ELSE newCustomersMap
  /\ scanOrdersCount' = scanOrdersCount + 1
  /\ ordersPage' = [ordersPage EXCEPT !.done = @ + 1]
  /\ UNCHANGED <<scanPc, ordersHasNextPage, ordersAfter, ordersTruncated,
                 scanRes>>
  /\ UNCHANGED <<topVars, walkVars, dateVars, bucketVars, sortVars,
                 reportVars, csvVars, presetVars, loaderVars,
                 channelVars, ordersUpstream>>

\* the end of an iteration (lines 462-467)
EndOrdersPage ==
  /\ scanPc = "page"
  /\ ordersPage.done = ordersPage.orders
  /\ ordersHasNextPage' = ordersPage.hasNextPage
  /\ ordersAfter' = nextCursor(ordersPage)
  /\ ordersTruncated' =
       IF scanOrdersCount >= MAX_ORDERS /\ ordersPage.hasNextPage THEN TRUE
       ELSE ordersTruncated
  /\ scanPc' = "loop"
  /\ ordersPage' = NoOrdersPage
  /\ ordersUpstream' = [ordersUpstream EXCEPT !.requested = <<>>]
  /\ UNCHANGED <<scanOrdersCount, usedFallback, newCustomersMap, ordersSeen,
                 scanRes>>
  /\ UNCHANGED <<topVars, walkVars, dateVars, bucketVars, sortVars,
                 reportVars, csvVars, presetVars, loaderVars,
                 channelVars>>

\* an iteration whose response carries errors: throw (lines 414-416)
ScanError ==
  /\ scanPc = "loop"
  /\ ScanContinues
  /\ scanPc' = "thrown"
  /\ ordersUpstream' = [ordersUpstream EXCEPT !.requested = ordersAfter]
  /\ UNCHANGED <<ordersHasNextPage, ordersAfter, scanOrdersCount,
                 ordersTruncated, usedFallback, newCustomersMap, ordersPage,
                 ordersSeen, scanRes>>
  /\ UNCHANGED <<topVars, walkVars, dateVars, bucketVars, sortVars,
                 reportVars, csvVars, presetVars, loaderVars,
                 channelVars>>

\* the while test fails: return (lines 470-476)
ScanReturn ==
  /\ scanPc = "loop"
  /\ ~ScanContinues
  /\ scanPc' = "returned"
  /\ scanRes' = <<[newCustomers |->
                     StableSort(newCustomersMap, "firstOrderDate"),
                   truncated |-> ordersTruncated,
                   usedFallback |-> usedFallback]>>
  /\ UNCHANGED <<ordersHasNextPage, ordersAfter, scanOrdersCount,
                 ordersTruncated, usedFallback, newCustomersMap, ordersPage,
                 ordersSeen>>
  /\ UNCHANGED <<topVars, walkVars, dateVars, bucketVars, sortVars,
                 reportVars, csvVars, presetVars, loaderVars,
                 channelVars, ordersUpstream>>

\* lookupEmail (line 483)
lookupEmail(url) ==
  IF url.customer_email = <<>> THEN <<>> ELSE Trim(url.customer_email[1])

\* the data of the loader (lines 491-513); found is the lookup's result
LoaderData(found) ==
  [range |-> [start |-> UTCDay(RangeStart), end |-> UTCDay(RangeEnd)],
   customerLookup |-> [query |-> lookupEmail(loaderReq), result |-> found],
   totals |-> [customers |-> customersCount, totalClv |-> totalClv,
               \* averageClv (line 280): the quotient of the pair
               averageClv |-> IF customersCount # 0
                              THEN <<totalClv, customersCount>>
                              ELSE <<0, 1>>,
               currencyCode |-> currencyCode],
   topCustomers |-> topCustomers,
   newCustomers |-> scanRes[1].newCustomers,
   notes |-> [customersTruncated |-> truncated,
              ordersTruncated |-> scanRes[1].truncated,
              usedNewCustomerFallback |-> scanRes[1].usedFallback]]

\* lines 487-515 once fetchOrdersInRange has returned: without an email to
\* look up the loader returns its data
ReturnWithoutLookup ==
  /\ scanPc = "returned"
  /\ lookupPc = "idle"
  /\ lookupEmail(loaderReq) = <<>>
  /\ lookupPc' = "skipped"
  /\ loaderRes' = <<LoaderData(<<>>)>>
  /\ UNCHANGED loaderReq
  /\ UNCHANGED <<topVars, walkVars, dateVars, bucketVars, sortVars,
                 reportVars, csvVars, presetVars, scanVars, channelVars>>

\* The customer the lookup may find, and the first order the upstream gives
\* for it: none, one without a first visit, one with a visit that came by a
\* UTM link from a referrer.
LookupCustomer == OrderCustomerOf("c1", 1, <<>>)
LookupFirstOrders ==
  {<<>>,
   <<[createdAt |-> RangeStart, firstVisit |-> <<>>]>>,
   <<[createdAt |-> RangeStart,
      firstVisit |->
        <<[source |-> <<<<"d">>>>, sourceDescription |-> <<>>,
           referrerUrl |-> <<<<"h", ":", "/", "/", "A", ".", "b">>>>,
           utmParameters |->
             <<[source |-> <<>>, medium |-> <<<<"c">>>>,
                campaign |-> <<>>, term |-> <<>>, content |-> <<>>]>>]>>]>>}

\* what fetchCustomerLookup returns for a customer found (lines 341-357)
lookupResult(customer, firstOrder) ==
  LET visit == IF firstOrder = <<>> THEN <<>> ELSE firstOrder[1].firstVisit
  IN  [id |-> customer.id,
       name |-> OrString(customer.displayName,
                         OrString(customer.email, UnknownChannel)),
       email |-> OrString(customer.email, <<"-">>),
       totalSpent |-> AmountOf(customer),
       ordersCount |-> OrdersOf(customer),
       firstOrderDate |-> IF firstOrder = <<>> THEN <<>>
                          ELSE <<firstOrder[1].createdAt>>,
       referrerChannel |-> formatReferrerChannel(visit),
       referrerUrl |-> IF visit # <<>> /\ Truthy(visit[1].referrerUrl)
                       THEN visit[1].referrerUrl ELSE <<>>,
       utmSummary |-> formatUtm(IF visit = <<>> THEN <<>>
                                ELSE visit[1].utmParameters)]

\* with an email it calls fetchCustomerLookup (lines 287-358), whose
\* response holds a customer or none, and returns its data
LookupAndReturn ==
  /\ scanPc = "returned"
  /\ lookupPc = "idle"
  /\ lookupEmail(loaderReq) # <<>>
  /\ lookupPc' = "returned"
  /\ \E found \in {<<>>} \cup {<<lookupResult(LookupCustomer, firstOrder)>> :
                                   firstOrder \in LookupFirstOrders} :
        loaderRes' = <<LoaderData(found)>>
  /\ UNCHANGED loaderReq
  /\ UNCHANGED <<topVars, walkVars, dateVars, bucketVars, sortVars,
                 reportVars, csvVars, presetVars, scanVars, channelVars>>

\* the lookup's response carries errors: throw (lines 334-336)
LookupError ==
  /\ scanPc = "returned"
  /\ lookupPc = "idle"
  /\ lookupEmail(loaderReq) # <<>>
  /\ lookupPc' = "thrown"
  /\ UNCHANGED <<loaderReq, loaderRes>>
  /\ UNCHANGED <<topVars, walkVars, dateVars, bucketVars, sortVars,
                 reportVars, csvVars, presetVars, scanVars, channelVars>>

\* the requests the analytics loader is tried on: a range of one day, and an
\* email that is missing, blank or given
InitLoaderRequest ==
  /\ dateReq \in [start : {DateText(1)}, end : {DateText(1)}, today : {0}]
  /\ dateRes = <<getDateRange(dateReq, dateReq.today)>>
  /\ loaderReq \in [customer_email : {<<>>, <<<<" ">>>>, <<<<" ", "a", "@">>>>}]
  /\ lookupPc = "idle"
  /\ loaderRes = <<>>
  /\ InitChannelIdle

NextLoader ==
  \/ FetchPage \/ ProcessCustomer \/ EndPage \/ FetchError \/ WalkReturn
  \/ StartScan \/ FetchOrdersPage \/ ProcessOrder \/ EndOrdersPage
  \/ ScanError \/ ScanReturn
  \/ ReturnWithoutLookup \/ LookupAndReturn \/ LookupError

\* both pages' loaders
NextLoaders == NextLoader \/ LoadReport

----------------------------------------------------------------------------
(* Report page: the action and the presets *)

CONFIG_KEYS ==
  <<"sort", "per_page", "q", "tags", "tags_mode", "min_orders", "max_orders",
    "min_spent", "max_spent", "created_start", "created_end",
    "first_order_start", "first_order_end">>

\* the shops of the sessions
Shops == {"a.myshopify.com", "b.myshopify.com"}

\* A form is a function from its field names to their texts; formData.get
\* gives null (<<>>) for a name the form does not hold.
formGet(form, name) == IF name \in DOMAIN form THEN <<form[name]>> ELSE <<>>

\* a plausible slip: the name is tested before it is trimmed
reportNameUntrimmed(form) == OrString(formGet(form, "report_name"), <<>>)

\* name (line 317)
reportName(form) == Trim(OrString(formGet(form, "report_name"), <<>>))

\* config (lines 322-328): the pairs <<key, value>> of the configuration keys
\* the form holds with a non-empty text, in the order of CONFIG_KEYS
RECURSIVE configOf(_, _)
configOf(form, k) ==
  IF k > Len(CONFIG_KEYS) THEN <<>>
  ELSE LET value == formGet(form, CONFIG_KEYS[k])
       IN  IF value # <<>> /\ Len(value[1]) > 0
           THEN <<<<CONFIG_KEYS[k], value[1]>>>> \o configOf(form, k + 1)
           ELSE configOf(form, k + 1)

\* A JSON text is kept by what it holds: "object" with its members, "null",
\* "empty" for the empty string, or "malformed" for a text that is no JSON.
JSONstringify(config) == [json |-> "object", members |-> config]

\* JSON.parse(preset.config || "{}") (line 465)
JSONparse(text) ==
  CASE text.json = "object" -> [threw |-> FALSE, isNull |-> FALSE,
                                members |-> text.members]
    [] text.json = "empty" -> [threw |-> FALSE, isNull |-> FALSE,
                               members |-> <<>>]
    [] text.json = "null" -> [threw |-> FALSE, isNull |-> TRUE,
                              members |-> <<>>]
    [] OTHER -> [threw |-> TRUE, isNull |-> FALSE, members |-> <<>>]

\* a plausible slip: only the space is encoded
RECURSIVE urlEncodeSpaceOnly(_)
urlEncodeSpaceOnly(text) ==
  IF text = <<>> THEN <<>>
  ELSE (IF Head(text) = " " THEN <<"+">> ELSE <<Head(text)>>)
         \o urlEncodeSpaceOnly(Tail(text))

\* application/x-www-form-urlencoded of a text: a space becomes "+", and
\* "&", "=", "+" and "%" are percent-encoded
RECURSIVE urlEncode(_)
urlEncode(text) ==
  IF text = <<>> THEN <<>>
  ELSE (CASE Head(text) = " " -> <<"+">>
          [] Head(text) = "&" -> <<"%", "2", "6">>
          [] Head(text) = "=" -> <<"%", "3", "D">>
          [] Head(text) = "+" -> <<"%", "2", "B">>
          [] Head(text) = "%" -> <<"%", "2", "5">>
          [] OTHER -> <<Head(text)>>) \o urlEncode(Tail(text))

\* config[key], when the configuration has the key
memberOf(members, key) ==
  LET at == {i \in 1..Len(members) : members[i][1] = key}
  IN  IF at = {} THEN <<>> ELSE <<members[CHOOSE i \in at : TRUE][2]>>

\* configToParams (lines 147-156): the text key=value&key=value, a key
\* standing as one token of it
RECURSIVE paramsOf(_, _)
paramsOf(members, k) ==
  IF k > Len(CONFIG_KEYS) THEN <<>>
  ELSE LET value == memberOf(members, CONFIG_KEYS[k])
           rest == paramsOf(members, k + 1)
       IN  IF value # <<>> /\ value[1] # <<>>
           THEN <<CONFIG_KEYS[k], "=">> \o urlEncode(value[1])
                  \o (IF rest = <<>> THEN <<>> ELSE <<"&">> \o rest)
           ELSE rest

configToParams(members) == paramsOf(members, 1)

\* a plausible slip: no try around the parse
presetParamsUncaught(config) ==
  LET parsed == JSONparse(config)
  IN  IF parsed.threw \/ parsed.isNull THEN [threw |-> TRUE, params |-> <<>>]
      ELSE [threw |-> FALSE, params |-> configToParams(parsed.members)]

\* params of a preset (lines 463-468): reading a key of null throws as the
\* parse of a malformed text does, and the catch turns both into ""
presetParams(config) ==
  LET parsed == JSONparse(config)
  IN  IF parsed.threw \/ parsed.isNull THEN [threw |-> FALSE, params |-> <<>>]
      ELSE [threw |-> FALSE, params |-> configToParams(parsed.members)]

\* a plausible slip: the presets of every shop are found
rowsOfAnyShop(rows, shop) == rows

\* where: { shop: session.shop } (line 458)
rowsOfShop(rows, shop) == SelectSeq(rows, LAMBDA row : row.shop = shop)

\* orderBy: { createdAt: "desc" } (line 459): the orders the store may give
\* the rows in, rows of one creation time coming in any order
newestFirst(rows) ==
  {[i \in 1..Len(rows) |-> rows[order[i]]] :
     order \in {o \in Permutations(1..Len(rows)) :
                  \A i \in 1..(Len(rows) - 1) :
                     rows[o[i]].createdAt >= rows[o[i + 1]].createdAt}}

\* a plausible slip: the delete is scoped to the session's shop
rowsAfterDeleteOwn(rows, id, shop) ==
  SelectSeq(rows, LAMBDA row : ~(row.id = id /\ row.shop = shop))

\* prisma.reportPreset.delete({ where: { id } }) (lines 344-346)
rowsAfterDelete(rows, id, shop) == SelectSeq(rows, LAMBDA row : row.id # id)

\* the forms the action is tried on
BlankNames == {<<>>, <<" ", " ">>}
ConfigFields ==
  { [sort |-> <<"a">>, q |-> <<>>, page |-> <<"2">>,
     tags |-> <<"x", "&", "y", "=", "z">>],
    [q |-> <<"b", " ", "+", "%">>, per_page |-> <<"5", "0">>] }
SaveForms ==
  {fields @@ [report_name |-> <<" ", "y", " ">>] : fields \in ConfigFields}
    \cup {[sort |-> <<"a">>, report_name |-> name] : name \in BlankNames}
    \cup {[sort |-> <<"a">>]}
PresetIds == 1..(MaxPresets + 1)

InitPresetsIdle ==
  /\ reportPreset = <<>>
  /\ presetClock = [now |-> 0, ids |-> 0]
  /\ actionRes = <<>>
  /\ presetsData = <<>>
  /\ presetLog = [created |-> {}, deleted |-> {}, submitted |-> <<>>]

\* the action on intent=save (lines 316-339); the store gives the row its id
\* and its creation time, and time may or may not have passed since the last
SavePreset ==
  /\ presetClock.ids < MaxPresets
  /\ \E shop \in Shops, form \in SaveForms, passed \in {0, 1} :
       LET name == reportName(form)
           now == presetClock.now + passed
           row == [id |-> presetClock.ids + 1, shop |-> shop, name |-> name,
                   config |-> JSONstringify(configOf(form, 1)),
                   createdAt |-> now]
       IN  IF name = <<>>
           THEN /\ actionRes' = <<[intent |-> "save", shop |-> shop,
                                   form |-> form, before |-> reportPreset,
                                   threw |-> FALSE, ok |-> FALSE,
                                   error |-> "Report name is required."]>>
                /\ UNCHANGED <<reportPreset, presetClock, presetLog>>
           ELSE /\ reportPreset' = Append(reportPreset, row)
                /\ presetClock' = [now |-> now, ids |-> presetClock.ids + 1]
                /\ presetLog' = [presetLog EXCEPT
                                   !.created = @ \cup {[id |-> row.id,
                                                        shop |-> shop]},
                                   !.submitted = Append(@, <<form>>)]
                /\ actionRes' = <<[intent |-> "save", shop |-> shop,
                                   form |-> form, before |-> reportPreset,
                                   threw |-> FALSE, ok |-> TRUE,
                                   error |-> ""]>>
  /\ presetsData' = <<>>
  /\ UNCHANGED <<topVars, walkVars, dateVars, bucketVars, sortVars,
                 reportVars, csvVars, scanVars, loaderVars,
                 channelVars>>

\* the action on intent=delete (lines 341-349); preset_id is missing (0) or
\* names a row; prisma's delete throws when no row has the id
DeletePreset ==
  /\ \E shop \in Shops, id \in {0} \cup PresetIds :
       LET found == \E i \in 1..Len(reportPreset) : reportPreset[i].id = id
           form == IF id = 0 THEN <<>>
                   ELSE [preset_id |-> NumString(id)]
       IN  /\ reportPreset' =
                IF id # 0 /\ found THEN rowsAfterDelete(reportPreset, id, shop)
                ELSE reportPreset
           /\ presetLog' =
                IF id # 0 /\ found /\ reportPreset' # reportPreset
                THEN [presetLog EXCEPT !.deleted = @ \cup {id},
                                       !.submitted[id] = <<>>]
                ELSE presetLog
           /\ actionRes' = <<[intent |-> "delete", shop |-> shop,
                              form |-> form, before |-> reportPreset,
                              threw |-> id # 0 /\ ~found,
                              ok |-> id = 0 \/ found, error |-> ""]>>
  /\ presetsData' = <<>>
  /\ UNCHANGED presetClock
  /\ UNCHANGED <<topVars, walkVars, dateVars, bucketVars, sortVars,
                 reportVars, csvVars, scanVars, loaderVars,
                 channelVars>>

\* the action on any other intent (line 351)
UnknownIntent ==
  /\ \E shop \in Shops :
       actionRes' = <<[intent |-> "unknown", shop |-> shop,
                       form |-> <<>>, before |-> reportPreset,
                       threw |-> FALSE, ok |-> FALSE,
                       error |-> "Unknown action."]>>
  /\ presetsData' = <<>>
  /\ UNCHANGED <<reportPreset, presetClock, presetLog>>
  /\ UNCHANGED <<topVars, walkVars, dateVars, bucketVars, sortVars,
                 reportVars, csvVars, scanVars, loaderVars,
                 channelVars>>

\* the loader's listing of the presets (lines 457-475)
ListPresets ==
  /\ presetsData = <<>>
  /\ \E shop \in Shops :
       \E presets \in newestFirst(rowsOfShop(reportPreset, shop)) :
          LET params == [i \in 1..Len(presets) |->
                           presetParams(presets[i].config)]
          IN  presetsData' =
                IF \E i \in 1..Len(presets) : params[i].threw
                THEN <<[shop |-> shop, threw |-> TRUE, presets |-> <<>>]>>
                ELSE <<[shop |-> shop, threw |-> FALSE,
                        presets |-> [i \in 1..Len(presets) |->
                                       [id |-> presets[i].id,
                                        name |-> presets[i].name,
                                        params |-> params[i].params]]]>>
  /\ UNCHANGED <<reportPreset, presetClock, actionRes, presetLog>>
  /\ UNCHANGED <<topVars, walkVars, dateVars, bucketVars, sortVars,
                 reportVars, csvVars, scanVars, loaderVars,
                 channelVars>>

\* A row whose config was not written by this action: by an earlier version
\* of the app or by hand.  Its text may be anything.
ForeignConfigs ==
  {[json |-> "malformed", members |-> <<>>],
   [json |-> "null", members |-> <<>>]}

ForeignWrite ==
  /\ presetClock.ids < MaxPresets
  /\ \E shop \in Shops, config \in ForeignConfigs :
       LET row == [id |-> presetClock.ids + 1, shop |-> shop,
                   name |-> <<"o", "l", "d">>, config |-> config,
                   createdAt |-> presetClock.now + 1]
       IN  /\ reportPreset' = Append(reportPreset, row)
           /\ presetClock' = [now |-> row.createdAt, ids |-> row.id]
           /\ presetLog' = [presetLog EXCEPT
                              !.created = @ \cup {[id |-> row.id,
                                                   shop |-> shop]},
                              !.submitted = Append(@, <<>>)]
  /\ presetsData' = <<>>
  /\ UNCHANGED actionRes
  /\ UNCHANGED <<topVars, walkVars, dateVars, bucketVars, sortVars,
                 reportVars, csvVars, scanVars, loaderVars,
                 channelVars>>

NextPresets == SavePreset \/ DeletePreset \/ UnknownIntent \/ ListPresets

NextPresetsForeign ==
  SavePreset \/ DeletePreset \/ UnknownIntent \/ ListPresets \/ ForeignWrite

----------------------------------------------------------------------------
(* Specifications *)

\* every component before its first step, with no input of its own
InitScanIdle ==
  /\ scanPc = "idle"
  /\ ordersHasNextPage = TRUE
  /\ ordersAfter = <<>>
  /\ scanOrdersCount = 0
  /\ ordersTruncated = FALSE
  /\ usedFallback = FALSE
  /\ newCustomersMap = <<>>
  /\ ordersPage = NoOrdersPage
  /\ ordersSeen = <<>>
  /\ scanRes = <<>>
  /\ ordersUpstream = [requested |-> <<>>, responded |-> <<>>]

InitLoaderIdle ==
  /\ loaderReq = [customer_email |-> <<>>]
  /\ lookupPc = "idle"
  /\ loaderRes = <<>>
  /\ InitChannelIdle

InitAnalytics ==
  InitTop /\ InitWalk /\ InitDateIdle /\ InitScanIdle /\ InitLoaderIdle
InitReport ==
  /\ InitBucketsIdle /\ InitSortIdle /\ InitReportIdle
  /\ InitCsvIdle /\ InitPresetsIdle
Init == InitAnalytics /\ InitReport

SpecTop == Init /\ [][NextTop]_vars
SpecWalk == Init /\ [][NextWalk]_vars
InitDateCall ==
  /\ InitTop /\ InitWalk /\ InitDate /\ InitScanIdle /\ InitLoaderIdle
  /\ InitReport
InitBucketsCall ==
  /\ InitAnalytics /\ InitBuckets /\ InitSortIdle /\ InitReportIdle
  /\ InitCsvIdle /\ InitPresetsIdle
InitSortCall ==
  /\ InitAnalytics /\ InitBucketsIdle /\ InitSort /\ InitReportIdle
  /\ InitCsvIdle /\ InitPresetsIdle
InitReportLoad ==
  /\ InitAnalytics /\ InitBucketsIdle /\ InitSortIdle /\ InitReportRequest
  /\ InitCsvIdle /\ InitPresetsIdle
InitReportOnOff ==
  /\ InitAnalytics /\ InitBucketsIdle /\ InitSortIdle /\ InitOnOffRequest
  /\ InitCsvIdle /\ InitPresetsIdle
InitReportPaged ==
  /\ InitAnalytics /\ InitBucketsIdle /\ InitSortIdle /\ InitPagedRequest
  /\ InitCsvIdle /\ InitPresetsIdle
\* a request to the analytics page, or a request to the report page
InitLoaders ==
  \/ /\ InitTop /\ InitWalkSmallShop /\ InitScanIdle /\ InitLoaderRequest
     /\ InitReport
  \/ /\ InitTop /\ InitWalkIdle /\ InitDateIdle /\ InitScanIdle
     /\ InitLoaderIdle
     /\ InitBucketsIdle /\ InitSortIdle /\ InitUpstreamRequest
     /\ InitCsvIdle /\ InitPresetsIdle
InitCsvCall ==
  /\ InitAnalytics /\ InitBucketsIdle /\ InitSortIdle /\ InitReportIdle
  /\ InitCsv /\ InitPresetsIdle
InitChannelCall ==
  /\ InitTop /\ InitWalk /\ InitDateIdle /\ InitScanIdle
  /\ loaderReq = [customer_email |-> <<>>]
  /\ lookupPc = "idle"
  /\ loaderRes = <<>>
  /\ InitChannel
  /\ InitReport

SpecDate == InitDateCall /\ [][NextDate]_vars
SpecBuckets == InitBucketsCall /\ [][NextBuckets]_vars
SpecSort == InitSortCall /\ [][NextSort]_vars
SpecReport == InitReportLoad /\ [][NextReport]_vars
SpecReportOnOff == InitReportOnOff /\ [][NextReport]_vars
SpecReportPaged == InitReportPaged /\ [][NextReport]_vars
SpecLoaders == InitLoaders /\ [][NextLoaders]_vars
\* a request to the analytics page whose loader runs on: the event loop
\* resumes every await whose response has come, and the upstream answers
\* every request
InitAnalyticsRequest ==
  /\ InitTop /\ InitWalkSmallShop /\ InitScanIdle /\ InitLoaderRequest
  /\ InitReport
SpecAnalyticsFair ==
  InitAnalyticsRequest /\ [][NextLoader]_vars /\ WF_vars(NextLoader)
SpecCsv == InitCsvCall /\ [][NextCsv]_vars
SpecChannel == InitChannelCall /\ [][NextChannel]_vars
SpecPresets == Init /\ [][NextPresets]_vars
SpecPresetsForeign == Init /\ [][NextPresetsForeign]_vars

----------------------------------------------------------------------------
(* Properties of the analytics customer walk and of the top-customers list *)

\* the walk has returned, every page served held at least one customer, and
\* the upstream holds more than MAX_CUSTOMERS customers: more than that were
\* served, or the last response announced a further page
ReturnedFromMoreThanMax ==
  /\ pc = "returned"
  /\ upstream.minLen >= 1
  /\ (upstream.served > MAX_CUSTOMERS \/ hasNextPage)

\* C1: when the pages hold between 1 and 250 customers and the upstream
\* holds more than 2000 customers, the walk returns customersTruncated = true
\* and the count and totalClv of exactly the first 2000 customers.
C1_ExactlyFirstMax ==
  ReturnedFromMoreThanMax =>
    /\ truncated
    /\ customersCount = MAX_CUSTOMERS
    /\ totalClv = upstream.clvOfFirstMax

\* C2: when the walk returns, customersTruncated is true exactly when the
\* count has reached the cap and the last page received reported
\* hasNextPage = true; a walk that stopped because the upstream reported no
\* more pages returns customersTruncated = false.
C2_TruncatedIffCapAndMore ==
  pc = "returned" =>
    /\ truncated <=> (customersCount >= MAX_CUSTOMERS /\ hasNextPage)
    /\ ~hasNextPage => ~truncated

\* the walk returned truncated, at the cap with a further page announced
C2_Witness ==
  /\ pc = "returned"
  /\ truncated
  /\ customersCount >= MAX_CUSTOMERS
  /\ hasNextPage

\* C3: after any sequence of insertTopCustomer calls from the empty list the
\* list holds at most 10 customers, sorted by totalSpent, largest first.
C3_TopSortedAndBounded ==
  /\ Len(topList) <= TOP_LIMIT
  /\ \A i \in 1..(Len(topList) - 1) :
       topList[i].totalSpent >= topList[i + 1].totalSpent

\* more than 10 calls were made and the list holds 10 customers of
\* different amounts
C3_Witness ==
  /\ topCalls > TOP_LIMIT
  /\ Len(topList) = TOP_LIMIT
  /\ topList[1].totalSpent > topList[TOP_LIMIT].totalSpent

----------------------------------------------------------------------------
(* Properties of getDateRange *)

\* C4: for valid start and end dates with start <= end the returned range
\* is [start at 00:00:00 UTC, end at 23:59:59 UTC], whatever the clock says.
C4_ValidPairSnapped ==
  (/\ dateRes # <<>>
   /\ dateReq.start.kind = "date"
   /\ dateReq.end.kind = "date"
   /\ dateReq.start.day <= dateReq.end.day) =>
    /\ dateRes[1].start = dateReq.start.day * SecondsPerDay
    /\ dateRes[1].end = dateReq.end.day * SecondsPerDay + (SecondsPerDay - 1)

\* a range of several days was returned late in a day outside of the range
C4_Witness ==
  /\ dateRes # <<>>
  /\ dateReq.start.kind = "date"
  /\ dateReq.end.kind = "date"
  /\ dateReq.start.day < dateReq.end.day
  /\ UTCDay(dateReq.today) > dateReq.end.day
  /\ dateReq.today % SecondsPerDay > 0
  /\ dateRes[1].end - dateRes[1].start > SecondsPerDay

\* C5: when the normalized start is after the normalized end, the returned
\* pair is the default window, the pair returned at the same instant when
\* both parameters are missing: it starts 29 days before today at 00:00:00
\* UTC and ends at the end of today.
C5_RevertsToDefaultWindow ==
  (/\ dateRes # <<>>
   /\ NormalizedStart(dateReq, dateReq.today)
        > NormalizedEnd(dateReq, dateReq.today)) =>
    /\ dateRes[1] = getDateRange([start |-> Missing, end |-> Missing],
                                 dateReq.today)
    /\ dateRes[1].start
         = (UTCDay(dateReq.today) - 29) * SecondsPerDay
    /\ dateRes[1].end
         = UTCDay(dateReq.today) * SecondsPerDay + (SecondsPerDay - 1)

----------------------------------------------------------------------------
(* Properties of buildBuckets *)

RECURSIVE SumCounts(_)
SumCounts(buckets) ==
  IF buckets = <<>> THEN 0
  ELSE buckets[1].count + SumCounts(Tail(buckets))

\* the number of values in the range of bucket i: edges[i] <= value <
\* edges[i + 1], and edges[i] <= value for the last bucket
InRangeCount(values, edges, i) ==
  Cardinality({k \in 1..Len(values) :
                 /\ values[k] >= edges[i]
                 /\ i < Len(edges) => values[k] < edges[i + 1]})

\* C8, as claimed: for any edge list (the empty one and unsorted ones too)
\* and any list of values buildBuckets returns normally and the counts of
\* its buckets sum to the number of values.
C8_SumForAnyEdges ==
  bucketRes # <<>> =>
    /\ ~bucketRes[1].threw
    /\ SumCounts(bucketRes[1].buckets) = Len(bucketReq.values)

\* C8, amended: the same for any non-empty edge list, and for the empty edge
\* list with the empty list of values; with no edges and at least one value
\* buildBuckets throws.
C8_SumForNonEmptyEdges ==
  bucketRes # <<>> =>
    IF bucketReq.edges # <<>> \/ bucketReq.values = <<>>
    THEN /\ ~bucketRes[1].threw
         /\ Len(bucketRes[1].buckets) = Len(bucketReq.edges)
         /\ SumCounts(bucketRes[1].buckets) = Len(bucketReq.values)
    ELSE bucketRes[1].threw

\* unsorted edges and two values, one of them below every edge, were counted
C8_Witness ==
  /\ bucketRes # <<>>
  /\ Len(bucketReq.edges) >= 2
  /\ bucketReq.edges[1] > bucketReq.edges[2]
  /\ Len(bucketReq.values) = 2
  /\ bucketReq.values[1] < 0
  /\ SumCounts(bucketRes[1].buckets) = 2

\* C9: every value is counted in exactly one bucket, and in bucket i only if
\* it lies in the range of bucket i; a value below edges[0] is counted in no
\* bucket whose range excludes it.
C9_CountedOnlyInRange ==
  (bucketRes # <<>> /\ ~bucketRes[1].threw) =>
    /\ SumCounts(bucketRes[1].buckets) = Len(bucketReq.values)
    /\ \A i \in 1..Len(bucketReq.edges) :
         bucketRes[1].buckets[i].count
           <= InRangeCount(bucketReq.values, bucketReq.edges, i)

----------------------------------------------------------------------------
(* Properties of sortCustomers *)

\* how often x occurs in s
Occurrences(s, x) == Cardinality({i \in 1..Len(s) : s[i] = x})

\* t is a permutation of s
IsPermutation(s, t) ==
  /\ Len(s) = Len(t)
  /\ \A i \in 1..Len(s) : Occurrences(s, s[i]) = Occurrences(t, s[i])

\* a may stand right before b under the sort key: strictly ordered by the
\* primary metric in the key's direction or, when equal on it, ordered by
\* the other metric in the same direction
InKeyOrder(sort, a, b) ==
  LET primary(c) == IF sort \in {"ltv_desc", "ltv_asc"}
                    THEN c.totalSpent ELSE c.ordersCount
      other(c) == IF sort \in {"ltv_desc", "ltv_asc"}
                  THEN c.ordersCount ELSE c.totalSpent
      up == sort \in {"ltv_asc", "orders_asc"}
  IN  IF up
      THEN \/ primary(a) < primary(b)
           \/ primary(a) = primary(b) /\ other(a) <= other(b)
      ELSE \/ primary(a) > primary(b)
           \/ primary(a) = primary(b) /\ other(a) >= other(b)

\* C10: for each of the four sort keys the result is a permutation of the
\* input, adjacent customers are ordered by the primary metric in the key's
\* direction and, when equal on it, by the other metric in the same
\* direction; the input list is left as it was.
C10_SortedPermutation ==
  sortRes # <<>> =>
    /\ IsPermutation(sortRes[1].given, sortRes[1].sorted)
    /\ \A i \in 1..(Len(sortRes[1].sorted) - 1) :
         InKeyOrder(sortReq.sort, sortRes[1].sorted[i],
                    sortRes[1].sorted[i + 1])
    /\ sortReq.customers = sortRes[1].given

\* three customers, two of them equal on spend, came out of ltv_desc in
\* another order than they went in (the tie broken by orders descending)
C10_Witness ==
  /\ sortRes # <<>>
  /\ sortReq.sort = "ltv_desc"
  /\ Len(sortRes[1].sorted) = 3
  /\ sortRes[1].sorted # sortRes[1].given
  /\ sortRes[1].sorted[1].totalSpent = sortRes[1].sorted[2].totalSpent
  /\ sortRes[1].sorted[1].ordersCount > sortRes[1].sorted[2].ordersCount
  /\ sortRes[1].sorted[2].totalSpent > sortRes[1].sorted[3].totalSpent

----------------------------------------------------------------------------
(* Properties of the report filter *)

\* The six predicates, each on its own.  A predicate that was not requested
\* lets every customer pass.
PassesPredicate(n, c, f) ==
  CASE n = 1 ->  \* text query on name or email
         \/ f.query = <<>>
         \/ Includes(Lower(c.name), f.query)
         \/ Includes(Lower(c.email), f.query)
    [] n = 2 ->  \* order-count bounds, inclusive
         /\ f.minOrdersValue = <<>> \/ c.ordersCount >= f.minOrdersValue[1]
         /\ f.maxOrdersValue = <<>> \/ c.ordersCount <= f.maxOrdersValue[1]
    [] n = 3 ->  \* spend bounds, inclusive
         /\ f.minSpentValue = <<>> \/ c.totalSpent >= f.minSpentValue[1]
         /\ f.maxSpentValue = <<>> \/ c.totalSpent <= f.maxSpentValue[1]
    [] n = 4 ->  \* tags: every requested tag (all), at least one (any)
         \/ f.tagsList = <<>>
         \/ /\ f.tagsMode = "all"
            /\ {f.tagsList[i] : i \in 1..Len(f.tagsList)}
                 \subseteq {c.tags[i] : i \in 1..Len(c.tags)}
         \/ /\ f.tagsMode = "any"
            /\ {f.tagsList[i] : i \in 1..Len(f.tagsList)}
                 \cap {c.tags[i] : i \in 1..Len(c.tags)} # {}
    [] n = 5 ->  \* created-at range; an undated customer fails a bound
         \/ f.createdStartDate = <<>> /\ f.createdEndDate = <<>>
         \/ /\ c.createdAt # <<>>
            /\ f.createdStartDate = <<>>
                 \/ c.createdAt[1] >= f.createdStartDate[1]
            /\ f.createdEndDate = <<>>
                 \/ c.createdAt[1] <= f.createdEndDate[1]
    [] n = 6 ->  \* first-order-date range, likewise
         \/ f.firstOrderStartDate = <<>> /\ f.firstOrderEndDate = <<>>
         \/ /\ c.firstOrderDate # <<>>
            /\ f.firstOrderStartDate = <<>>
                 \/ c.firstOrderDate[1] >= f.firstOrderStartDate[1]
            /\ f.firstOrderEndDate = <<>>
                 \/ c.firstOrderDate[1] <= f.firstOrderEndDate[1]

\* the orders the six predicates may be applied in
PredicateOrders == Permutations(1..6)

\* the positions of the customers left after the predicates order[1..k]
\* were applied in turn
RECURSIVE ApplyInOrder(_, _, _, _)
ApplyInOrder(order, k, customers, f) ==
  IF k = 0 THEN 1..Len(customers)
  ELSE {i \in ApplyInOrder(order, k - 1, customers, f) :
          PassesPredicate(order[k], customers[i], f)}

\* C6: applying the six predicates in any order leaves the customers the
\* loader's filter leaves: those that pass every requested predicate.
C6_FilterOrderIndependent ==
  reportRes # <<>> =>
    \A order \in PredicateOrders :
       Pick(reportRes[1].customers,
            ApplyInOrder(order, 6, reportRes[1].customers, reportRes[1].parsed))
         = reportRes[1].filtered

\* a request with a text query, tags and a created-at bound that some
\* customers survived and others did not
C6_Witness ==
  /\ reportRes # <<>>
  /\ reportRes[1].parsed.query # <<>>
  /\ reportRes[1].parsed.tagsList # <<>>
  /\ reportRes[1].parsed.createdEndDate # <<>>
  /\ Len(reportRes[1].filtered) >= 1
  /\ Len(reportRes[1].filtered) < Len(reportRes[1].customers)

\* the ids of the customers the loader's filter leaves under tags_mode = mode
SurvivorsUnder(mode) ==
  LET kept == filterCustomers(
                reportRes[1].customers,
                ParseParams([reportReq.params EXCEPT !.tags_mode = mode]))
  IN  {kept[i].id : i \in 1..Len(kept)}

\* the ids of the customers the loader kept
Survivors == {reportRes[1].filtered[i].id : i \in 1..Len(reportRes[1].filtered)}

\* C7: with the same tag list and the same other filters, the customers that
\* survive tags_mode = all are among those that survive tags_mode = any.
C7_AllSubsetOfAny ==
  reportRes # <<>> =>
    /\ SurvivorsUnder("all") \subseteq SurvivorsUnder("any")
    /\ Survivors = SurvivorsUnder(reportReq.params.tags_mode)

\* two tags were requested with tags_mode = all, and fewer customers, but
\* not none, survived than survive tags_mode = any
C7_Witness ==
  /\ reportRes # <<>>
  /\ reportReq.params.tags_mode = "all"
  /\ Len(reportRes[1].parsed.tagsList) = 2
  /\ Survivors # {}
  /\ Survivors # SurvivorsUnder("any")

----------------------------------------------------------------------------
(* Properties of the report's pagination and export *)

\* C11: for every page parameter and every filtered total, the page the
\* loader returns is an integer p with 1 <= p <= totalPages, where totalPages
\* is max(1, ceil(total / perPage)); a missing, non-numeric or non-positive
\* page gives page 1 and a page beyond the last gives totalPages.
C11_PageClamped ==
  (reportRes # <<>> /\ ~reportRes[1].threw /\ ~reportRes[1].isCsv) =>
    LET r == reportRes[1]
        pages == Max(1, CeilDiv(r.totalCustomers, r.perPage))
        param == reportReq.paging.page
    IN  /\ r.page % 2 = 0
        /\ Halves(1) <= r.page /\ r.page <= Halves(pages)
        /\ (param.kind # "number" \/ param.value <= 0) => r.page = Halves(1)
        /\ (param.kind = "number" /\ param.value > Halves(pages)) =>
             r.page = Halves(pages)

\* What an RFC 4180 reader takes as the first field of a text: a field that
\* opens with a quote runs to its closing quote, a doubled quote inside it
\* standing for one quote; any other field runs up to the first comma, quote,
\* line feed or carriage return. ok says the field was the whole text.
RECURSIVE readQuoted(_, _)
readQuoted(rest, value) ==
  IF rest = <<>> THEN [ok |-> FALSE, value |-> value]
  ELSE IF Head(rest) # "\"" THEN readQuoted(Tail(rest), Append(value, Head(rest)))
  ELSE IF Len(rest) >= 2 /\ rest[2] = "\""
       THEN readQuoted(Tail(Tail(rest)), Append(value, "\""))
  ELSE [ok |-> Len(rest) = 1, value |-> value]

readCsvField(text) ==
  IF text # <<>> /\ Head(text) = "\"" THEN readQuoted(Tail(text), <<>>)
  ELSE LET stops == {i \in 1..Len(text) : text[i] \in {"\"", ",", "\n", "\r"}}
       IN  IF stops = {} THEN [ok |-> TRUE, value |-> text]
           ELSE [ok |-> FALSE,
                 value |-> SubSeq(text, 1,
                              (CHOOSE i \in stops : \A j \in stops : i <= j) - 1)]

\* the number of double quotes of a text
QuoteCount(text) == Cardinality({i \in 1..Len(text) : text[i] = "\""})

\* C12: for every string, escapeCsv gives one CSV field that a standard CSV
\* reader reads back as the original string; a string with a comma, a double
\* quote or a newline is wrapped in double quotes with each inner double quote
\* doubled, and any other string is returned unchanged.
C12_RoundTrip ==
  csvRes # <<>> =>
    LET text == csvReq[1]
        field == csvRes[1]
    IN  /\ readCsvField(field) = [ok |-> TRUE, value |-> text]
        /\ IF \E i \in 1..Len(text) : text[i] \in {",", "\"", "\n"}
           THEN /\ Len(field) = Len(text) + 2 + QuoteCount(text)
                /\ Head(field) = "\"" /\ field[Len(field)] = "\""
                /\ QuoteCount(field) = 2 + 2 * QuoteCount(text)
           ELSE field = text

----------------------------------------------------------------------------
(* Properties of the presets *)

\* the row of the store with an id
RowOf(rows, id) == rows[CHOOSE i \in 1..Len(rows) : rows[i].id = id]

\* the text of the form's report_name, empty when the form has none
RawName(form) ==
  IF "report_name" \in DOMAIN form THEN form.report_name ELSE <<>>

\* C14: a save whose report_name is empty or only whitespace returns
\* {ok: false, error} without throwing and leaves the store unchanged: no
\* row is created.
C14_EmptyNameRejected ==
  (/\ actionRes # <<>>
   /\ actionRes[1].intent = "save"
   /\ \A i \in 1..Len(RawName(actionRes[1].form)) :
         RawName(actionRes[1].form)[i] = " ") =>
    /\ ~actionRes[1].threw
    /\ ~actionRes[1].ok
    /\ actionRes[1].error # ""
    /\ reportPreset = actionRes[1].before

\* a save with a name of blanks, the store holding a preset
C14_Witness ==
  /\ actionRes # <<>>
  /\ actionRes[1].intent = "save"
  /\ RawName(actionRes[1].form) = <<" ", " ">>
  /\ ~actionRes[1].ok
  /\ reportPreset # <<>>

\* C15: after any sequence of saves and deletes by any shops, the presets
\* listed for shop S are exactly those created by S and not deleted since,
\* newest first.
C15_ListingExact ==
  presetsData # <<>> =>
    LET listing == presetsData[1]
        ids == {listing.presets[i].id : i \in 1..Len(listing.presets)}
    IN  /\ ~listing.threw
        /\ Cardinality(ids) = Len(listing.presets)
        /\ ids = {c.id : c \in {c \in presetLog.created :
                                  /\ c.shop = listing.shop
                                  /\ c.id \notin presetLog.deleted}}
        /\ \A i \in 1..(Len(listing.presets) - 1) :
             RowOf(reportPreset, listing.presets[i].id).createdAt
               >= RowOf(reportPreset, listing.presets[i + 1].id).createdAt

\* a listing of two presets made at different times
C15_Witness ==
  /\ presetsData # <<>>
  /\ Len(presetsData[1].presets) = 2
  /\ RowOf(reportPreset, presetsData[1].presets[1].id).createdAt
       > RowOf(reportPreset, presetsData[1].presets[2].id).createdAt

\* the id a delete form names, 0 when it names none
NamedId(form) ==
  IF "preset_id" \in DOMAIN form
  THEN CHOOSE id \in PresetIds : NumString(id) = form.preset_id
  ELSE 0

\* C16: a delete with a preset_id removes the preset with that id whichever
\* shop owns it: the requesting shop is not compared with the preset's shop.
C16_DeleteAnyOwner ==
  (/\ actionRes # <<>>
   /\ actionRes[1].intent = "delete"
   /\ \E i \in 1..Len(actionRes[1].before) :
         actionRes[1].before[i].id = NamedId(actionRes[1].form)) =>
    /\ actionRes[1].ok
    /\ reportPreset =
         SelectSeq(actionRes[1].before,
                   LAMBDA row : row.id # NamedId(actionRes[1].form))

\* shop A has removed a preset of shop B
C16_Witness ==
  /\ actionRes # <<>>
  /\ actionRes[1].intent = "delete"
  /\ actionRes[1].ok
  /\ \E i \in 1..Len(actionRes[1].before) :
        /\ actionRes[1].before[i].id = NamedId(actionRes[1].form)
        /\ actionRes[1].before[i].shop # actionRes[1].shop
        /\ \A j \in 1..Len(reportPreset) :
              reportPreset[j].id # actionRes[1].before[i].id

\* C17: when a stored preset's configuration cannot be parsed, the loader
\* still lists every preset of the shop, the malformed one with an empty
\* parameter string, the others with their own parameters.
C17_MalformedListedEmpty ==
  presetsData # <<>> =>
    LET listing == presetsData[1]
    IN  /\ ~listing.threw
        /\ Len(listing.presets) = Len(rowsOfShop(reportPreset, listing.shop))
        /\ \A i \in 1..Len(listing.presets) :
             LET row == RowOf(reportPreset, listing.presets[i].id)
             IN  /\ row.shop = listing.shop
                 /\ row.config.json = "malformed" =>
                      listing.presets[i].params = <<>>
                 /\ row.config.json = "object" =>
                      listing.presets[i].params
                        = configToParams(row.config.members)

\* a listing of a malformed preset and of one with parameters
C17_Witness ==
  /\ presetsData # <<>>
  /\ ~presetsData[1].threw
  /\ \E i, j \in 1..Len(presetsData[1].presets) :
        /\ RowOf(reportPreset, presetsData[1].presets[i].id).config.json
             = "malformed"
        /\ presetsData[1].presets[i].params = <<>>
        /\ presetsData[1].presets[j].params # <<>>

----------------------------------------------------------------------------
(* Properties of the order scan and of the loaders *)

\* the rule of the new customer, on a scanned order
HasCustomer(order) == order.customer # <<>>
InRangeFirstOrder(order) ==
  /\ HasCustomer(order)
  /\ order.customer[1].firstOrderCreatedAt # <<>>
  /\ order.customer[1].firstOrderCreatedAt[1] >= RangeStart
  /\ order.customer[1].firstOrderCreatedAt[1] <= RangeEnd
OnlyOrderUndated(order) ==
  /\ HasCustomer(order)
  /\ order.customer[1].firstOrderCreatedAt = <<>>
  /\ order.customer[1].numberOfOrders = <<1>>
Qualifies(order) == InRangeFirstOrder(order) \/ OnlyOrderUndated(order)

\* the scanned orders of a customer that qualify
QualifyingOrders(id) ==
  {k \in 1..Len(ordersSeen) :
     /\ Qualifies(ordersSeen[k])
     /\ ordersSeen[k].customer[1].id = id}

\* the first of them
FirstQualifying(id) ==
  CHOOSE k \in QualifyingOrders(id) : \A j \in QualifyingOrders(id) : k <= j

\* the ids of the customers of the scanned orders
ScannedIds ==
  {ordersSeen[k].customer[1].id :
     k \in {j \in 1..Len(ordersSeen) : HasCustomer(ordersSeen[j])}}

\* C18: a customer of a scanned order is reported as new if and only if its
\* first-order timestamp is given and lies in [start, end], or is not given
\* while its lifetime order count is exactly 1; in the second case the
\* reported firstOrderDate is the scanned order's creation time and
\* usedNewCustomerFallback is true, and usedNewCustomerFallback is false when
\* no customer was classified by the second rule.
C18_NewCustomerRule ==
  scanRes # <<>> =>
    LET new == scanRes[1].newCustomers
    IN  /\ \A id \in ScannedIds :
             (\E i \in 1..Len(new) : new[i].id = id)
               <=> QualifyingOrders(id) # {}
        /\ \A i \in 1..Len(new) :
             OnlyOrderUndated(ordersSeen[FirstQualifying(new[i].id)]) =>
               /\ new[i].firstOrderDate
                    = ordersSeen[FirstQualifying(new[i].id)].createdAt
               /\ scanRes[1].usedFallback
        /\ scanRes[1].usedFallback
             <=> \E k \in 1..Len(ordersSeen) : OnlyOrderUndated(ordersSeen[k])
        /\ loaderRes # <<>> =>
             loaderRes[1].notes.usedNewCustomerFallback
               = scanRes[1].usedFallback

\* the loader has returned a customer classified by the second rule beside
\* one classified by the first, and a customer that is not new was scanned
C18_Witness ==
  /\ loaderRes # <<>>
  /\ loaderRes[1].notes.usedNewCustomerFallback
  /\ \E i, j \in 1..Len(loaderRes[1].newCustomers) :
        /\ OnlyOrderUndated(
             ordersSeen[FirstQualifying(loaderRes[1].newCustomers[i].id)])
        /\ InRangeFirstOrder(
             ordersSeen[FirstQualifying(loaderRes[1].newCustomers[j].id)])
  /\ \E k \in 1..Len(ordersSeen) :
        HasCustomer(ordersSeen[k]) /\ ~Qualifies(ordersSeen[k])

\* C19: for any sequence of scanned orders the new-customer result holds each
\* customer id at most once, the entry kept for a customer is the one built
\* from the first scanned order of that customer that qualified, the result
\* is sorted by firstOrderDate ascending, and orders without a customer add
\* no entry.
C19_DedupedAndSorted ==
  scanRes # <<>> =>
    LET new == scanRes[1].newCustomers
    IN  /\ \A i, j \in 1..Len(new) : new[i].id = new[j].id => i = j
        /\ \A i \in 1..Len(new) :
             /\ new[i].id \in ScannedIds
             /\ QualifyingOrders(new[i].id) # {}
             /\ LET order == ordersSeen[FirstQualifying(new[i].id)]
                IN  /\ new[i].ordersCount = order.customer[1].numberOfOrders[1]
                    /\ new[i].firstOrderDate =
                         IF order.customer[1].firstOrderCreatedAt # <<>>
                         THEN order.customer[1].firstOrderCreatedAt[1]
                         ELSE order.createdAt
        /\ \A i \in 1..(Len(new) - 1) :
             new[i].firstOrderDate <= new[i + 1].firstOrderDate
        /\ Len(new) <= Cardinality({k \in 1..Len(ordersSeen) :
                                      HasCustomer(ordersSeen[k])})

\* two new customers returned in another order than they were found in, after
\* an order without a customer
C19_Witness ==
  /\ scanRes # <<>>
  /\ Len(scanRes[1].newCustomers) = 2
  /\ scanRes[1].newCustomers # newCustomersMap
  /\ \E k \in 1..Len(ordersSeen) : ~HasCustomer(ordersSeen[k])

\* some upstream response of the request carried errors
Thrown ==
  \/ pc = "thrown"
  \/ scanPc = "thrown"
  \/ lookupPc = "thrown"
  \/ reportRes # <<>> /\ reportRes[1].threw

\* what a thrown request has left behind
NothingReturned ==
  /\ pc = "thrown" =>
       scanPc = "idle" /\ scanRes = <<>> /\ lookupPc = "idle"
         /\ loaderRes = <<>>
  /\ scanPc = "thrown" => scanRes = <<>> /\ lookupPc = "idle" /\ loaderRes = <<>>
  /\ lookupPc = "thrown" => loaderRes = <<>>
  /\ reportRes # <<>> =>
       LET needed == Max(1, CeilDiv(Len(reportReq.nodes),
                                    reportReq.upstream.pageLen))
           errorAt == reportReq.upstream.errorAt
       IN  /\ reportRes[1].threw <=> errorAt \in 1..needed
           /\ reportRes[1].threw =>
                /\ DOMAIN reportRes[1] = {"threw", "requests"}
                /\ Len(reportRes[1].requests) = errorAt

\* C20: in both loaders, when an upstream response carries errors the request
\* throws, no data is returned, not even of the pages already read, and no
\* further upstream request follows the failing one; when the customer walk
\* of the analytics loader fails, the order scan and the lookup never start.
C20_ErrorsAbort == [](NothingReturned) /\ [][~Thrown]_vars

\* the customer walk has thrown after a page it had read
C20_Witness ==
  /\ pc = "thrown"
  /\ customersCount = 1
  /\ scanPc = "idle"

----------------------------------------------------------------------------
(* Properties of formatReferrerChannel *)

\* the text of a field that is given and not empty, else the empty text
Given(text) == text # <<>> /\ Len(text[1]) > 0

\* the UTM fields in the order of the listing, with their keys
UtmKeys ==
  << <<"s", "o", "u", "r", "c", "e">>, <<"m", "e", "d", "i", "u", "m">>,
     <<"c", "a", "m", "p", "a", "i", "g", "n">>, <<"t", "e", "r", "m">>,
     <<"c", "o", "n", "t", "e", "n", "t">> >>
UtmValues(utm) == <<utm.source, utm.medium, utm.campaign, utm.term, utm.content>>

\* the listing of the non-empty fields up to the i-th, each after the first
\* preceded by ", "
RECURSIVE UtmListing(_, _)
UtmListing(utm, i) ==
  IF i = 0 THEN <<>>
  ELSE LET before == UtmListing(utm, i - 1)
       IN  IF ~Given(UtmValues(utm)[i]) THEN before
           ELSE before \o (IF before = <<>> THEN <<>> ELSE <<",", " ">>)
                  \o UtmKeys[i] \o <<"=">> \o UtmValues(utm)[i][1]

\* the channel the priority order gives for a visit
ChannelByPriority(visit) ==
  IF visit = <<>> THEN <<"U", "n", "k", "n", "o", "w", "n">>
  ELSE LET v == visit[1]
           hasUtm == /\ v.utmParameters # <<>>
                     /\ \/ Given(v.utmParameters[1].source)
                        \/ Given(v.utmParameters[1].medium)
       IN  CASE hasUtm ->
                  <<"U", "T", "M", " ", "(">>
                    \o UtmListing(v.utmParameters[1], 5) \o <<")">>
             [] ~hasUtm /\ Given(v.source) ->
                  IF Given(v.sourceDescription)
                  THEN v.source[1] \o <<" ", "-", " ">>
                         \o v.sourceDescription[1]
                  ELSE v.source[1]
             [] ~hasUtm /\ ~Given(v.source) /\ Given(v.referrerUrl) ->
                  IF URLhostname(v.referrerUrl[1]) = <<>>
                  THEN v.referrerUrl[1]
                  ELSE URLhostname(v.referrerUrl[1])[1]
             [] OTHER -> <<"U", "n", "k", "n", "o", "w", "n">>

\* C21: for every referral visit formatReferrerChannel follows the priority
\* order: with a non-empty UTM source or medium the result is `UTM (...)`
\* listing only the non-empty UTM fields as k=v in the order source, medium,
\* campaign, term, content; otherwise with a named source it is the source
\* with an optional ` - description`; otherwise with a referrer URL it is the
\* URL's hostname, or the raw URL when it cannot be parsed; otherwise, and
\* without a visit, it is "Unknown".
C21_ChannelPriority ==
  channelRes # <<>> => channelRes[1] = ChannelByPriority(channelReq[1])

\* the call has answered for a visit with a UTM medium and campaign but no
\* UTM source, that also has a named source and a referrer URL
C21_Witness ==
  /\ channelRes # <<>>
  /\ channelReq[1] # <<>>
  /\ channelReq[1][1].utmParameters # <<>>
  /\ ~Given(channelReq[1][1].utmParameters[1].source)
  /\ Given(channelReq[1][1].utmParameters[1].medium)
  /\ Given(channelReq[1][1].utmParameters[1].campaign)
  /\ Given(channelReq[1][1].source)
  /\ Given(channelReq[1][1].referrerUrl)
  /\ channelRes[1] = <<"U", "T", "M", " ", "(", "m", "e", "d", "i", "u", "m",
                       "=", "c", ",", " ", "c", "a", "m", "p", "a", "i", "g",
                       "n", "=", "x", ")">>

----------------------------------------------------------------------------
(* Properties of the pagination protocol *)

\* the cursor a request must carry after the last response: null before any
\* response, else the response's endCursor, and that response had a next page
FollowsResponse(cursor, responded) ==
  IF responded = <<>> THEN cursor = <<>>
  ELSE responded[1].hasNextPage /\ cursor = responded[1].endCursor

\* a step that issues a page request of the customer walk
WalkRequestStep ==
  pc = "loop" /\ pc' \in {"page", "thrown"}
    => FollowsResponse(upstream'.requested, upstream.responded)

\* a step that issues a page request of the order scan
ScanRequestStep ==
  scanPc = "loop" /\ scanPc' \in {"page", "thrown"}
    => FollowsResponse(ordersUpstream'.requested, ordersUpstream.responded)

\* the email parameter holds something besides spaces
EmailGiven ==
  /\ loaderReq.customer_email # <<>>
  /\ \E i \in 1..Len(loaderReq.customer_email[1]) :
        loaderReq.customer_email[1][i] # " "

\* the steps that start the order scan and that end the loader
LoaderOrderStep ==
  /\ scanPc = "idle" /\ scanPc' # "idle" => pc = "returned"
  /\ lookupPc = "idle" /\ lookupPc' # "idle" =>
       /\ scanPc = "returned"
       /\ lookupPc' \in {"returned", "thrown"} <=> EmailGiven

\* the requests of the report's walk against the pages the upstream holds
ReportRequestsInOrder ==
  reportRes # <<>> =>
    LET requests == reportRes[1].requests
        size == Len(reportReq.nodes)
        pageLen == reportReq.upstream.pageLen
    IN  /\ Len(requests) >= 1
        /\ requests[1] = <<>>
        /\ \A k \in 2..Len(requests) :
             /\ (k - 1) * pageLen < size
             /\ requests[k] = <<(k - 1) * pageLen>>

\* the walks of the analytics loader run one after the other
OneAfterTheOther ==
  /\ scanPc # "idle" => pc = "returned"
  /\ lookupPc # "idle" => scanPc = "returned"
  /\ pc \in {"loop", "page"} => upstream.served = 0 \/ upstream.responded # <<>>

\* C22: in every pagination walk (analytics customers, analytics orders,
\* report customers) the page requests are issued one after the other, the
\* first with a null cursor and each later one with the endCursor of the
\* response just received, and only after that response reported
\* hasNextPage = true; in the analytics loader the customer walk completes
\* before the order scan starts, and the lookup is issued last and only if
\* customer_email is non-empty after trimming.
C22_PaginationProtocol ==
  /\ [][WalkRequestStep /\ ScanRequestStep /\ LoaderOrderStep]_vars
  /\ [](ReportRequestsInOrder /\ OneAfterTheOther)

\* after a customer walk that sent a request with the cursor of a response,
\* the order scan of a request with an email has done so too
C22_Witness ==
  /\ upstream.requested # <<>>
  /\ scanPc = "page"
  /\ ordersUpstream.requested # <<>>
  /\ EmailGiven

----------------------------------------------------------------------------
(* Properties of the top-customers list against the whole sequence *)

\* how many of the candidates offered so far had a larger amount
RECURSIVE SeenAbove(_)
SeenAbove(amount) ==
  IF amount >= MaxAmount THEN 0
  ELSE topSeen[amount + 1] + SeenAbove(amount + 1)

\* how many candidates of an amount are among the k largest of those offered
AmongLargest(amount, k) ==
  Min(topSeen[amount], Max(0, k - SeenAbove(amount)))

\* how many entries of the list have the amount
InTopList(amount) ==
  Cardinality({i \in 1..Len(topList) : topList[i].totalSpent = amount})

\* C23: after any sequence of customers has been processed, the multiset of
\* totalSpent values in the top-customers list equals the multiset of the
\* min(10, n) largest totalSpent values among the n processed customers:
\* re-sorting and truncating on every insertion selects the top 10 of the
\* whole sequence.
C23_TopNEquivalence ==
  /\ Len(topList) = Min(TOP_LIMIT, topCalls)
  /\ \A amount \in Amounts :
       InTopList(amount) = AmongLargest(amount, Min(TOP_LIMIT, topCalls))

\* more than ten candidates were offered, the smallest amount among them,
\* and the list holds none of that amount any more
C23_Witness ==
  /\ topCalls > TOP_LIMIT
  /\ topSeen[0] > 0
  /\ InTopList(0) = 0
  /\ \E amount \in Amounts : InTopList(amount) > 1

----------------------------------------------------------------------------
(* Termination of the capped walks *)

\* C24: for every upstream that answers each request with a page of 0 to 250
\* items and an arbitrary hasNextPage flag, the analytics customer walk and
\* the analytics order scan each come to an end after a bounded number of
\* page requests.
C24_WalksTerminate ==
  /\ pc = "loop" ~> pc \in {"returned", "thrown"}
  /\ scanPc = "loop" ~> scanPc \in {"returned", "thrown"}

\* a step in which the upstream answers a request with an empty page that
\* has a next page
EmptyPageStep ==
  \/ pc = "loop" /\ pc' = "page" /\ page'.nodes = 0 /\ page'.hasNextPage
  \/ /\ scanPc = "loop" /\ scanPc' = "page"
     /\ ordersPage'.orders = 0 /\ ordersPage'.hasNextPage

\* the walks come to an end when the upstream stops sending such pages
WalksTerminateWithoutEmptyPages ==
  <>[][~EmptyPageStep]_vars => C24_WalksTerminate

----------------------------------------------------------------------------
(* Properties of the preset round trip *)

\* what reading a query string does to an encoded text: "+" is a space, and
\* a percent sequence is the character it stands for
RECURSIVE urlDecode(_)
urlDecode(text) ==
  IF text = <<>> THEN <<>>
  ELSE IF Head(text) = "+" THEN <<" ">> \o urlDecode(Tail(text))
  ELSE IF Len(text) >= 3 /\ SubSeq(text, 1, 3) = <<"%", "2", "6">>
       THEN <<"&">> \o urlDecode(SubSeq(text, 4, Len(text)))
  ELSE IF Len(text) >= 3 /\ SubSeq(text, 1, 3) = <<"%", "3", "D">>
       THEN <<"=">> \o urlDecode(SubSeq(text, 4, Len(text)))
  ELSE IF Len(text) >= 3 /\ SubSeq(text, 1, 3) = <<"%", "2", "B">>
       THEN <<"+">> \o urlDecode(SubSeq(text, 4, Len(text)))
  ELSE IF Len(text) >= 3 /\ SubSeq(text, 1, 3) = <<"%", "2", "5">>
       THEN <<"%">> \o urlDecode(SubSeq(text, 4, Len(text)))
  ELSE <<Head(text)>> \o urlDecode(Tail(text))

\* the key=value parts of a query string, the empty parts left out
ParamParts(text) == NonEmpty(Split(text, "&"))

\* the key and the decoded value a part stands for: the key ends at the
\* first "=", and a part without one has an empty value
PartPair(part) ==
  LET at == {i \in 1..Len(part) : part[i] = "="}
  IN  IF at = {} THEN <<urlDecode(part), <<>>>>
      ELSE LET first == CHOOSE i \in at : \A j \in at : i <= j
           IN  <<urlDecode(SubSeq(part, 1, first - 1)),
                 urlDecode(SubSeq(part, first + 1, Len(part)))>>

\* a key is one token of the text, so a decoded key is a text of one token
DecodedPairs(text) ==
  {PartPair(ParamParts(text)[i]) : i \in 1..Len(ParamParts(text))}

\* the configuration keys a form was submitted with a non-empty value for,
\* each with the submitted value
SubmittedConfig(form) ==
  {<<key, form[key]>> :
     key \in {k \in DOMAIN form :
                /\ \E i \in 1..Len(CONFIG_KEYS) : CONFIG_KEYS[i] = k
                /\ form[k] # <<>>}}

\* the form a preset still stored was saved from, when this action saved it
SubmittedFor(id) ==
  IF id \in 1..Len(presetLog.submitted) THEN presetLog.submitted[id]
  ELSE <<>>

\* the parameter string decodes to exactly the submitted configuration
DecodesTo(params, form) ==
  /\ {<<<<pair[1]>>, pair[2]>> : pair \in SubmittedConfig(form)}
       = DecodedPairs(params)
  /\ Len(ParamParts(params)) = Cardinality(SubmittedConfig(form))

\* the stored configuration holds exactly the submitted configuration
StoresOnly(row, form) ==
  /\ row.config.json = "object"
  /\ {row.config.members[i] : i \in 1..Len(row.config.members)}
       = SubmittedConfig(form)
  /\ Len(row.config.members) = Cardinality(SubmittedConfig(form))

\* every preset listed that a save created is listed with the parameters
\* of the form it was saved from, and is stored with nothing else
ListedAsSubmitted ==
  /\ \A i \in 1..Len(reportPreset) :
        SubmittedFor(reportPreset[i].id) # <<>> =>
          StoresOnly(reportPreset[i], SubmittedFor(reportPreset[i].id)[1])
  /\ (presetsData # <<>> /\ ~presetsData[1].threw) =>
        \A i \in 1..Len(presetsData[1].presets) :
           LET preset == presetsData[1].presets[i]
           IN  SubmittedFor(preset.id) # <<>> =>
                 DecodesTo(preset.params, SubmittedFor(preset.id)[1])

\* a step leaves every stored preset as it is, or deletes it
RowsKeptOrDeleted ==
  \A i \in 1..Len(reportPreset) :
     \/ \E j \in 1..Len(reportPreset') : reportPreset'[j] = reportPreset[i]
     \/ /\ \A j \in 1..Len(reportPreset') :
              reportPreset'[j].id # reportPreset[i].id
        /\ reportPreset[i].id \in presetLog'.deleted

\* C25: for every save with a non-empty name, the parameter string later
\* listed for that preset decodes to exactly the configuration keys that
\* were submitted with a non-empty value, each with the submitted value; no
\* other key (such as page) is stored, and a saved preset is never changed
\* afterwards except by being deleted.
C25_PresetRoundTrip == [](ListedAsSubmitted) /\ [][RowsKeptOrDeleted]_vars

\* a preset saved from a form with a page, an empty q and a value holding
\* "&" and "=" is listed after a later save, next to a preset whose value
\* holds " ", "+" and "%"
C25_Witness ==
  /\ presetsData # <<>>
  /\ ~presetsData[1].threw
  /\ \E i, j \in 1..Len(presetsData[1].presets) :
        LET first == SubmittedFor(presetsData[1].presets[i].id)
            second == SubmittedFor(presetsData[1].presets[j].id)
        IN  /\ first # <<>>
            /\ "page" \in DOMAIN first[1]
            /\ "tags" \in DOMAIN first[1]
            /\ presetsData[1].presets[i].params # <<>>
            /\ second # <<>>
            /\ "per_page" \in DOMAIN second[1]

====
